---------------------------- MODULE Spec2Model ----------------------------
(***************************************************************************)
(* dockforward: the remote port-forwarding and service-state engine.       *)
(*                                                                         *)
(* The model covers the tunnel registry (pkg/ssh.go), the Docker client    *)
(* with its service map and port mapping table (the DockerClient source),  *)
(* the screens' poll loops and the kill / remap handlers                   *)
(* (pkg/screens.go, pkg/display.go), together with the local machine the   *)
(* engine observes through lsof and acts on through kill.                  *)
(*                                                                         *)
(* Ports are numbers; where the program holds them as decimal strings      *)
(* (sort.Strings) the string order is computed on their digits.            *)
(***************************************************************************)
EXTENDS Integers, Sequences, FiniteSets, Bags, TLC

(***************************************************************************)
(* Bounds of the model.                                                    *)
(***************************************************************************)
\* Largest number of session goroutines that exist at the same time.
MaxSessions == 2
\* Largest number of foreign listening processes at the same time.
MaxForeign == 1
\* Largest number of kill / remap commands the operator types in a run.
MaxCommands == 1
\* The same, in the runs that follow the operator's input lines.
MaxOperatorCommands == 2
\* Number of servers in the configuration file.
MaxServers == 1
\* Largest number of poll goroutines that exist at the same time.
MaxPollers == 2

\* Ports a remote container can publish, and ports of the local machine.
RemotePorts == {9, 10}
LocalPorts == {9, 10, 11}

\* The empty string passed as localPort.
Empty == 0

(***************************************************************************)
(* pkg/types.go: forward status constants.                                 *)
(***************************************************************************)
StatusNotForwarded == "Not forwarded"
StatusForwarded == "Forwarded"
StatusReady == "Ready"
StatusError == "Error"
StatusConflict == "Conflict"

VARIABLES
    ports,            \* SSHClient.ports: remote port -> local port
    sessions,         \* bag of session goroutines with their ssh process
    foreign,          \* local port -> foreign listening process, or NoProc
    portMappings,     \* DockerClient.portMappings: service -> remote -> local
    heap,             \* the ServiceStatus objects, by address
    services,         \* DockerClient.services: name -> address
    currentServices,  \* DisplayManager.currentServices: sequence of addresses
    selectedService,  \* DisplayManager.selectedService: address or Nil
    screen,           \* the current screen
    commands,         \* number of kill / remap commands still to be typed
    render,           \* the rendering of the detail screen in progress
    mu,               \* DockerClient.mu: the goroutine that holds the lock
    sshMu,            \* SSHClient.mu: the goroutine that holds the mutex
    displayMu,        \* DisplayManager.mu: the goroutine that holds the lock
    pc,               \* goroutine -> the call it is in the middle of
    pollers,          \* the poll goroutines that run, and what each does
    api,              \* the local Docker API listener and the remote socket
    running,          \* the process has not panicked
    last              \* the operation that ran last, with its arguments

vars == <<ports, sessions, foreign, portMappings, heap, services,
          currentServices, selectedService, screen, commands, render,
          mu, sshMu, displayMu, pc, pollers, api, running, last>>

sshVars == <<ports, sessions, foreign>>
dockerVars == <<portMappings, heap, services>>
displayVars == <<currentServices, selectedService, screen>>
mutexVars == <<mu, sshMu, displayMu, pc>>
lockVars == <<mutexVars, pollers>>
engineVars == <<lockVars, api, running>>

(***************************************************************************)
(* Go maps as functions with a finite domain.                              *)
(***************************************************************************)
EmptyMap == [x \in {} |-> 0]
MapPut(m, k, v) == [x \in (DOMAIN m) \cup {k} |-> IF x = k THEN v ELSE m[x]]
MapDelete(m, k) == [x \in (DOMAIN m) \ {k} |-> m[x]]

(***************************************************************************)
(* The local machine: who listens on a local port.                         *)
(*                                                                         *)
(* A foreign process is owned by the operator (mine, so that kill works)   *)
(* or by another user; it listens on an IPv4 address.                      *)
(***************************************************************************)
NoProc == [kind |-> "none"]
ForeignProcs == {[kind |-> "foreign", mine |-> m] : m \in BOOLEAN}

NumForeign(f) == Cardinality({p \in DOMAIN f : f[p] # NoProc})

(***************************************************************************)
(* A session: the goroutine started by ForwardPort and its ssh -L process. *)
(*   Starting  - the process is spawned and has not bound its local port   *)
(*   Listening - the process listens on the local port                     *)
(*   Unbound   - the process runs, the local port was taken: ssh goes on   *)
(*               without the listener                                      *)
(*   Exited    - Run returned an error, the goroutine has not yet taken    *)
(*               the mutex to delete the registry entry                    *)
(* sup records that a later ForwardPort replaced the session's entry.      *)
(***************************************************************************)
Session(r, l, st, sup) == [r |-> r, l |-> l, st |-> st, sup |-> sup]
LiveStates == {"Starting", "Listening", "Unbound"}

SessionSet(ss) == BagToSet(ss)
ReplaceSession(ss, old, new) == (ss (-) SetToBag({old})) (+) SetToBag({new})

\* The sessions whose process listens on local port p.
ListeningOn(ss, p) == {s \in SessionSet(ss) : s.st = "Listening" /\ s.l = p}

PortFree(T, p) == T.foreign[p] = NoProc /\ ListeningOn(T.sessions, p) = {}

(***************************************************************************)
(* pkg/ssh.go 91-98: lsof -ti :remotePort, then kill of the pid found.     *)
(* The process found is the one that holds the LOCAL port whose number is  *)
(* remotePort.  kill fails on a process of another user; the error is      *)
(* dropped.  A killed ssh process makes Run return an error.               *)
(***************************************************************************)
KillOnPort(T, p) ==
    IF p \notin LocalPorts THEN T
    ELSE IF T.foreign[p] # NoProc
    THEN IF T.foreign[p].mine
         THEN [T EXCEPT !.foreign[p] = NoProc]
         ELSE T
    ELSE IF ListeningOn(T.sessions, p) # {}
    THEN LET s == CHOOSE x \in ListeningOn(T.sessions, p) : TRUE
         IN [T EXCEPT !.sessions =
                ReplaceSession(@, s, [s EXCEPT !.st = "Exited"])]
    ELSE T

\* Ghost: the sessions of the replaced entry r -> l are superseded.
RECURSIVE MarkSuperseded(_, _, _)
MarkSuperseded(ss, r, l) ==
    LET hit == {s \in SessionSet(ss) : s.r = r /\ s.l = l /\ ~s.sup}
    IN IF hit = {} THEN ss
       ELSE LET s == CHOOSE x \in hit : TRUE
                n == CopiesIn(s, ss)
                moved == [e \in {[s EXCEPT !.sup = TRUE]} |-> n]
                rest == [e \in (DOMAIN ss) \ {s} |-> ss[e]]
            IN MarkSuperseded(rest (+) moved, r, l)

\* pkg/ssh.go 102-122: track the mapping, start the goroutine.
StartSession(T, r, l) ==
    [T EXCEPT !.ports = MapPut(@, r, l),
              !.sessions = @ (+) SetToBag({Session(r, l, "Starting", FALSE)})]

(***************************************************************************)
(* pkg/ssh.go 77-125: SSHClient.ForwardPort, run under s.mu.               *)
(* T is the state <<ports, sessions, foreign>> it works on; the result is  *)
(* the state when it returns (it always returns nil).                      *)
(***************************************************************************)
ForwardPort(T, remotePort, localPort0) ==
    LET localPort == IF localPort0 = Empty THEN remotePort ELSE localPort0
    IN IF remotePort \in DOMAIN T.ports
       THEN IF T.ports[remotePort] = localPort
            THEN T
            ELSE LET K == KillOnPort(T, remotePort)
                     D == [K EXCEPT
                            !.sessions = MarkSuperseded(@, remotePort,
                                                        T.ports[remotePort]),
                            !.ports = MapDelete(@, remotePort)]
                 IN StartSession(D, remotePort, localPort)
       ELSE StartSession(T, remotePort, localPort)

SSHState == [ports |-> ports, sessions |-> sessions, foreign |-> foreign]

NumSessions(ss) == BagCardinality(ss)


(***************************************************************************)
(* Strings.  A port string is the decimal form of its number; names and    *)
(* status texts are sequences of fragments, so that prefix and substring   *)
(* tests are computed on them.                                             *)
(***************************************************************************)
RECURSIVE Itoa(_)
Itoa(n) == IF n < 10 THEN <<n>> ELSE Append(Itoa(n \div 10), n % 10)

\* Go's string order on two digit strings.
RECURSIVE DigitsLess(_, _)
DigitsLess(a, b) ==
    IF a = <<>> THEN b # <<>>
    ELSE IF b = <<>> THEN FALSE
    ELSE IF Head(a) # Head(b) THEN Head(a) < Head(b)
    ELSE DigitsLess(Tail(a), Tail(b))

PortStrLess(p, q) == DigitsLess(Itoa(p), Itoa(q))

\* strings.Contains on fragment sequences.
Contains(text, sub) ==
    \E i \in 0..(Len(text) - Len(sub)) :
        \A j \in 1..Len(sub) : text[i + j] = sub[j]

\* strings.TrimPrefix(name, "/")
TrimPrefix(name, prefix) ==
    IF Len(name) >= Len(prefix) /\ SubSeq(name, 1, Len(prefix)) = prefix
    THEN SubSeq(name, Len(prefix) + 1, Len(name))
    ELSE name

\* Order of the name fragments used by the containers of the model.
FragRank(f) == CASE f = "/" -> 0 [] f = "db" -> 1 [] f = "web" -> 2 [] OTHER -> 3

RECURSIVE NameLess(_, _)
NameLess(a, b) ==
    IF a = <<>> THEN b # <<>>
    ELSE IF b = <<>> THEN FALSE
    ELSE IF Head(a) # Head(b) THEN FragRank(Head(a)) < FragRank(Head(b))
    ELSE NameLess(Tail(a), Tail(b))

\* sort.Strings on a set of distinct port strings.
RECURSIVE SortPortStrings(_)
SortPortStrings(S) ==
    IF S = {} THEN <<>>
    ELSE LET m == CHOOSE x \in S : \A y \in S \ {x} : PortStrLess(x, y)
         IN <<m>> \o SortPortStrings(S \ {m})

SeqToSet(q) == {q[i] : i \in 1..Len(q)}

(***************************************************************************)
(* pkg/types.go: health status constants.                                  *)
(***************************************************************************)
HealthHealthy == "Healthy"
HealthUnhealthy == "Unhealthy"
HealthRunning == "Running"
HealthCreated == "Created"
HealthRestarting == "Restarting"
HealthRemoving == "Removing"
HealthPaused == "Paused"
HealthExited == "Exited"
HealthDead == "Dead"
HealthUnknown == "Unknown"

\* DockerClient.parseContainerState
parseContainerState(state, status) ==
    CASE state = "running" ->
            IF Contains(status, <<"healthy">>) THEN HealthHealthy
            ELSE IF Contains(status, <<"un", "healthy">>) THEN HealthUnhealthy
            ELSE HealthRunning
      [] state = "created" -> HealthCreated
      [] state = "restarting" -> HealthRestarting
      [] state = "removing" -> HealthRemoving
      [] state = "paused" -> HealthPaused
      [] state = "exited" -> HealthExited
      [] state = "dead" -> HealthDead
      [] OTHER -> HealthUnknown

\* DockerClient.extractPorts: the non-zero public ports, deduplicated,
\* then sort.Strings on their decimal strings.
extractPorts(portRecords) ==
    SortPortStrings({portRecords[i] : i \in 1..Len(portRecords)} \ {0})

(***************************************************************************)
(* The remote daemon's answers to GET /containers/json.                    *)
(***************************************************************************)
Container(name, state, status, pub) ==
    [Names |-> <<name>>, State |-> state, Status |-> status, Ports |-> pub]

WebName == <<"/", "web">>
DbName == <<"/", "db">>
UpText == <<"Up ", "2 minutes">>
UnhealthyText == <<"Up ", "2 minutes", " (", "un", "healthy", ")">>

DiscoveryResults ==
    { <<>>,
      << Container(WebName, "running", UpText, <<9>>) >>,
      << Container(WebName, "running", UnhealthyText, <<10, 0, 9, 9>>),
         Container(DbName, "exited", <<"Exited (0)">>, <<0>>) >> }

(***************************************************************************)
(* ServiceStatus objects.                                                  *)
(***************************************************************************)
Nil == 0

NewService(name, exposed, health) ==
    [Name |-> name, ExposedPorts |-> exposed, HealthStatus |-> health,
     ForwardStatus |-> StatusNotForwarded, Conflicts |-> <<>>]

\* ForwardPort has no return statement other than "return nil".
ForwardPortFails(T, remotePort, localPort) == FALSE

(***************************************************************************)
(* DockerClient.forwardPorts: ForwardPort(port, port) for each exposed     *)
(* port, whatever portMappings holds.  Result: the ssh state and the       *)
(* forward status written to the service.                                  *)
(***************************************************************************)
RECURSIVE forwardPortsFrom(_, _, _)
forwardPortsFrom(T, exposed, i) ==
    IF i > Len(exposed)
    THEN [T |-> T, status |-> StatusForwarded]
    ELSE LET port == exposed[i]
             localPort == port
         IN IF ForwardPortFails(T, localPort, port)
            THEN [T |-> T, status |-> StatusError]
            ELSE forwardPortsFrom(ForwardPort(T, localPort, port), exposed, i + 1)

forwardPorts(T, service) == forwardPortsFrom(T, service.ExposedPorts, 1)

(***************************************************************************)
(* DockerClient.GetServices, after a successful query and decode: one new  *)
(* ServiceStatus per container record, stored under its name, its ports    *)
(* forwarded.  Result: the new objects in creation order, the map from     *)
(* name to the index of its object, and the ssh state.  container.Names[0] *)
(* of a record without a name is an index out of range: the goroutine      *)
(* panics, with the ports of the records before it forwarded.              *)
(***************************************************************************)
RECURSIVE GetServicesFrom(_, _, _, _, _)
GetServicesFrom(T, containers, i, objs, byName) ==
    IF i > Len(containers)
    THEN [T |-> T, objs |-> objs, byName |-> byName, panic |-> FALSE]
    ELSE IF Len(containers[i].Names) = 0
    THEN [T |-> T, objs |-> objs, byName |-> byName, panic |-> TRUE]
    ELSE LET container == containers[i]
             name == TrimPrefix(container.Names[1], <<"/">>)
             exposed == extractPorts(container.Ports)
             health == parseContainerState(container.State, container.Status)
             service == NewService(name, exposed, health)
             F == forwardPorts(T, service)
             done == [service EXCEPT !.ForwardStatus = F.status]
         IN GetServicesFrom(F.T, containers, i + 1, Append(objs, done),
                            MapPut(byName, name, Len(objs) + 1))

GetServices(T, containers) == GetServicesFrom(T, containers, 1, <<>>, EmptyMap)

\* A lookup that leaves the PortMapping table aside.
GetPortMapping_Identity(pm, serviceName, remotePort) == remotePort

\* DockerClient.GetPortMapping
GetPortMapping(pm, serviceName, remotePort) ==
    IF serviceName \in DOMAIN pm /\ remotePort \in DOMAIN pm[serviceName]
    THEN pm[serviceName][remotePort]
    ELSE remotePort

\* contains (pkg/display.go)
contains(slice, item) == \E i \in 1..Len(slice) : slice[i] = item

\* removeString: the slice without the first occurrence of s.
removeString(slice, s) ==
    IF contains(slice, s)
    THEN LET i == CHOOSE k \in 1..Len(slice) :
                     slice[k] = s /\ \A j \in 1..(k - 1) : slice[j] # s
         IN SubSeq(slice, 1, i - 1) \o SubSeq(slice, i + 1, Len(slice))
    ELSE slice

\* RemapPort without the removal of the port from the conflicts.
RemapPort_KeepsConflict(pm, service, remotePort, localPort) ==
    LET inner == IF service.Name \in DOMAIN pm THEN pm[service.Name]
                 ELSE EmptyMap
    IN [pm |-> MapPut(pm, service.Name, MapPut(inner, remotePort, localPort)),
        service |-> [service EXCEPT !.ForwardStatus = StatusReady]]

(***************************************************************************)
(* DockerClient.RemapPort, under d.mu: stores the mapping, takes the port  *)
(* out of the conflicts of the service object it was given and sets that   *)
(* object's status to Ready.  Result: the port mappings and the object.    *)
(***************************************************************************)
RemapPort(pm, service, remotePort, localPort) ==
    LET inner == IF service.Name \in DOMAIN pm THEN pm[service.Name]
                 ELSE EmptyMap
        conflicts == IF contains(service.Conflicts, remotePort)
                     THEN removeString(service.Conflicts, remotePort)
                     ELSE service.Conflicts
    IN [pm |-> MapPut(pm, service.Name, MapPut(inner, remotePort, localPort)),
        service |-> [service EXCEPT !.Conflicts = conflicts,
                                    !.ForwardStatus = StatusReady]]

(***************************************************************************)
(* GetLocalInUsePorts / parseLocalPorts: the port segments of the LISTEN   *)
(* lines of lsof -i -n.  The address field is split at ":" and the second  *)
(* piece taken: the port for host:port, the empty string for [::1]:port.   *)
(* An ssh -L process listens on 127.0.0.1 and on ::1.                      *)
(***************************************************************************)
parseLocalPorts(T) ==
    {p \in LocalPorts : T.foreign[p] # NoProc}
    \cup {p \in LocalPorts : ListeningOn(T.sessions, p) # {}}
    \cup {Empty : p \in {q \in LocalPorts : ListeningOn(T.sessions, q) # {}}}

\* IsPortInUse (pkg/ssh.go)
IsPortInUse(port, localPorts) == port \in localPorts

(***************************************************************************)
(* DockerClient.UpdateForwardingStatus, the loop body for one service:     *)
(* every exposed port whose own number is among the local ports is a       *)
(* conflict.                                                               *)
(***************************************************************************)
RECURSIVE CheckPortsFrom(_, _, _, _, _)
CheckPortsFrom(exposed, localPorts, i, conflicts, status) ==
    IF i > Len(exposed)
    THEN [conflicts |-> conflicts, status |-> status]
    ELSE LET port == exposed[i]
         IN IF IsPortInUse(port, localPorts)
            THEN CheckPortsFrom(exposed, localPorts, i + 1,
                                conflicts \cup {port}, StatusConflict)
            ELSE IF status # StatusConflict
            THEN CheckPortsFrom(exposed, localPorts, i + 1, conflicts,
                                StatusReady)
            ELSE CheckPortsFrom(exposed, localPorts, i + 1, conflicts, status)

UpdateServiceStatus(service, localPorts) ==
    LET R == CheckPortsFrom(service.ExposedPorts, localPorts, 1, {},
                            StatusForwarded)
    IN [service EXCEPT !.ForwardStatus = R.status,
                       !.Conflicts = SortPortStrings(R.conflicts)]

(***************************************************************************)
(* SSHClient.ForwardPorts.  The text of an exposed port value is a         *)
(* sequence of tokens: a number for a run of digits, Dash for "-".  The    *)
(* ports that extractPorts yields are one number; "9-11" is                *)
(* <<9, Dash, 11>>.  The local port comes from portMap, "" when it has no  *)
(* entry.  A call is <<remotePort, localPort>>.                            *)
(***************************************************************************)
Dash == -1

PortText(p) == <<p>>

\* strings.Split(text, "-")
RECURSIVE Split(_, _)
Split(text, sep) ==
    IF \A i \in 1..Len(text) : text[i] # sep THEN <<text>>
    ELSE LET k == CHOOSE i \in 1..Len(text) :
                     text[i] = sep /\ \A j \in 1..(i - 1) : text[j] # sep
         IN <<SubSeq(text, 1, k - 1)>>
            \o Split(SubSeq(text, k + 1, Len(text)), sep)

\* strconv.Atoi on a part of the split text.
Atoi(part) ==
    IF Len(part) = 1 /\ part[1] >= 0 THEN [ok |-> TRUE, n |-> part[1]]
    ELSE [ok |-> FALSE, n |-> 0]

PortMapGet(portMap, p) == IF p \in DOMAIN portMap THEN portMap[p] ELSE Empty

\* The loop with i < end.
RECURSIVE ForwardRange_ExclusiveEnd(_, _, _)
ForwardRange_ExclusiveEnd(i, end, portMap) ==
    IF i < end
    THEN <<<<i, PortMapGet(portMap, i)>>>>
         \o ForwardRange_ExclusiveEnd(i + 1, end, portMap)
    ELSE <<>>

\* for i := start; i <= end; i++
RECURSIVE ForwardRange(_, _, _)
ForwardRange(i, end, portMap) ==
    IF i <= end
    THEN <<<<i, PortMapGet(portMap, i)>>>> \o ForwardRange(i + 1, end, portMap)
    ELSE <<>>

\* The calls of ForwardPort made for the exposed values from the i-th on.
RECURSIVE ForwardPortsFrom(_, _, _)
ForwardPortsFrom(exposed, i, portMap) ==
    IF i > Len(exposed) THEN <<>>
    ELSE LET remotePort == exposed[i]
             portRange == Split(remotePort, Dash)
             calls ==
                 IF Contains(remotePort, <<Dash>>)
                 THEN IF Len(portRange) # 2 THEN <<>>
                      ELSE IF ~Atoi(portRange[1]).ok THEN <<>>
                      ELSE IF ~Atoi(portRange[2]).ok THEN <<>>
                      ELSE ForwardRange(Atoi(portRange[1]).n,
                                        Atoi(portRange[2]).n, portMap)
                 ELSE <<<<remotePort[1], PortMapGet(portMap, remotePort[1])>>>>
         IN calls \o ForwardPortsFrom(exposed, i + 1, portMap)

\* The calls made one after the other on the ssh state T.
RECURSIVE ForwardEach(_, _)
ForwardEach(T, calls) ==
    IF calls = <<>> THEN T
    ELSE ForwardEach(ForwardPort(T, Head(calls)[1], Head(calls)[2]), Tail(calls))

ForwardPortsText(T, exposed, portMap) ==
    ForwardEach(T, ForwardPortsFrom(exposed, 1, portMap))

ForwardPorts(T, service, portMap) ==
    ForwardPortsText(T, [i \in 1..Len(service.ExposedPorts) |->
                            PortText(service.ExposedPorts[i])], portMap)

(***************************************************************************)
(* Addresses.  After every operation the objects still referenced by the   *)
(* service map, the display's list or the selection are renumbered in      *)
(* that order, the others are garbage.                                     *)
(***************************************************************************)
RECURSIVE SortNames(_)
SortNames(S) ==
    IF S = {} THEN <<>>
    ELSE LET m == CHOOSE x \in S : \A y \in S \ {x} : NameLess(x, y)
         IN <<m>> \o SortNames(S \ {m})

RECURSIVE Dedup(_, _)
Dedup(q, seen) ==
    IF q = <<>> THEN <<>>
    ELSE IF Head(q) \in seen THEN Dedup(Tail(q), seen)
    ELSE <<Head(q)>> \o Dedup(Tail(q), seen \cup {Head(q)})

Relocate(h, svc, cur, sel) ==
    LET names == SortNames(DOMAIN svc)
        roots == [i \in 1..Len(names) |-> svc[names[i]]] \o cur
                 \o (IF sel = Nil THEN <<>> ELSE <<sel>>)
        order == Dedup(roots, {})
        to(a) == CHOOSE i \in 1..Len(order) : order[i] = a
    IN [heap |-> [i \in 1..Len(order) |-> h[order[i]]],
        services |-> [n \in DOMAIN svc |-> to(svc[n])],
        currentServices |-> [i \in 1..Len(cur) |-> to(cur[i])],
        selectedService |-> IF sel = Nil THEN Nil ELSE to(sel)]

\* The kill / remap command or ForwardPort call that ran last, with two
\* arguments and its outcome; "other" after any other step.
Last(op, a, b, res) == [op |-> op, a |-> a, b |-> b, res |-> res]

(***************************************************************************)
(* ServiceDetailScreen.Display, run by the main loop after an input and by *)
(* the detail poll goroutine after its tick, without a lock on the         *)
(* selection or on its object.  It reads the fields for the info table,    *)
(* then those for the ports table.  render.cand is a history variable:     *)
(* the ports tables of the states, since the rendering began, whose info   *)
(* table is the one that was read.                                         *)
(***************************************************************************)
RenderIdle == [pc |-> "idle", owner |-> "", info |-> <<>>, rows |-> <<>>,
               cand |-> {}]

\* Name, Health Status and Forward Status of the info table.
InfoOf(h, sel) ==
    IF sel = Nil THEN <<>>
    ELSE <<h[sel].Name, h[sel].HealthStatus, h[sel].ForwardStatus>>

\* Remote port, local port and status of every row of the ports table.
RowsOf(h, sel, pm) ==
    IF sel = Nil THEN <<>>
    ELSE [i \in 1..Len(h[sel].ExposedPorts) |->
            LET port == h[sel].ExposedPorts[i]
            IN <<port, GetPortMapping(pm, h[sel].Name, port),
                 IF contains(h[sel].Conflicts, port) THEN "Conflict"
                 ELSE IF h[sel].ForwardStatus = StatusForwarded
                 THEN "Forwarded" ELSE "Ready">>]

\* A step of a thread: a thread does nothing else while it renders; the
\* history variable follows the step.
RenderStep(thread) ==
    /\ ~(render.pc = "ports" /\ render.owner = thread)
    /\ render' =
         IF /\ render.pc = "ports"
            /\ InfoOf(heap', selectedService') = render.info
         THEN [render EXCEPT
                 !.cand = @ \cup {RowsOf(heap', selectedService',
                                         portMappings')}]
         ELSE render

DisplayInfo(thread) ==
    /\ screen = "Detail"
    /\ selectedService # Nil
    /\ render.pc # "ports"
    /\ render' = [pc |-> "ports", owner |-> thread,
                  info |-> InfoOf(heap, selectedService), rows |-> <<>>,
                  cand |-> {RowsOf(heap, selectedService, portMappings)}]
    /\ last' = Last("other", 0, 0, "")
    /\ UNCHANGED <<sshVars, dockerVars, displayVars, commands, engineVars>>

DisplayPorts ==
    /\ render.pc = "ports"
    /\ selectedService # Nil
    /\ render' = [render EXCEPT
                    !.pc = "done",
                    !.rows = RowsOf(heap, selectedService, portMappings)]
    /\ last' = Last("other", 0, 0, "")
    /\ UNCHANGED <<sshVars, dockerVars, displayVars, commands, engineVars>>

(***************************************************************************)
(* The goroutines and what they share: the two mutexes, the poll loops,    *)
(* the local API listener.  At the start no mutex is held, no goroutine is *)
(* in the middle of a call, the poll loop of the overview screen waits for *)
(* its tick, the accept loop accepts and the remote socket answers.        *)
(***************************************************************************)
Free == ""

(***************************************************************************)
(* A poll goroutine (startPolling): the screen that started it, whether it *)
(* waits in its select or is inside its refresh, and whether its screen is *)
(* the current screen.                                                     *)
(***************************************************************************)
Poller(kind, st, cur) == [kind |-> kind, st |-> st, cur |-> cur]

\* stopPolling of the current screen, which returns when its goroutine has
\* taken the value from done, and startPolling of the new screen.
SwitchPoller(ps, from, to) ==
    (ps (-) SetToBag({Poller(from, "waiting", TRUE)}))
        (+) SetToBag({Poller(to, "waiting", TRUE)})

\* The refresh of a poll goroutine of this kind of screen has returned.
FinishTick(ps, kind) ==
    LET busy == {p \in BagToSet(ps) : p.kind = kind /\ p.st = "refreshing"}
    IN IF busy = {} THEN ps
       ELSE LET p == CHOOSE x \in busy : TRUE
            IN (ps (-) SetToBag({p}))
                   (+) SetToBag({[p EXCEPT !.st = "waiting"]})

InitEngine ==
    /\ mu = Free
    /\ sshMu = Free
    /\ displayMu = Free
    /\ pc = EmptyMap
    /\ pollers = SetToBag({Poller("Overview", "waiting", TRUE)})
    /\ api = [accept |-> "accepting", dial |-> "ok", closed |-> FALSE,
              recovered |-> FALSE]
    /\ running = TRUE

Init ==
    /\ ports = EmptyMap
    /\ sessions = EmptyBag
    /\ foreign = [p \in LocalPorts |-> NoProc]
    /\ portMappings = EmptyMap
    /\ heap = <<>>
    /\ services = EmptyMap
    /\ currentServices = <<>>
    /\ selectedService = Nil
    /\ screen = "Overview"
    /\ commands = MaxCommands
    /\ render = RenderIdle
    /\ InitEngine
    /\ last = Last("init", 0, 0, "")

(***************************************************************************)
(* Writing back the result of an operation.                                *)
(***************************************************************************)
SetSSH(T) ==
    /\ NumSessions(T.sessions) <= MaxSessions
    /\ ports' = T.ports
    /\ sessions' = T.sessions
    /\ foreign' = T.foreign

SetObjects(h, svc, cur, sel) ==
    LET R == Relocate(h, svc, cur, sel)
    IN /\ heap' = R.heap
       /\ services' = R.services
       /\ currentServices' = R.currentServices
       /\ selectedService' = R.selectedService

Range(f) == {f[x] : x \in DOMAIN f}

(***************************************************************************)
(* DockerClient.Start: the accept loop of the local API listener with one  *)
(* connection, the one http.Get of GetServices makes.  The loop dials the  *)
(* remote daemon socket over ssh; when the dial fails it closes the        *)
(* connection and goes on accepting.  Result: the listener afterwards and  *)
(* what became of the connection.  closed is history: a connection has     *)
(* been closed after a failed dial.                                        *)
(***************************************************************************)
\* A loop that returns after the failed dial.
AfterDialFailure_Return == "stopped"

\* "local.Close(); continue"
AfterDialFailure == "accepting"

AcceptConnection(a) ==
    IF a.accept # "accepting" THEN [api |-> a, conn |-> "waiting"]
    ELSE IF a.dial = "failing"
    THEN [api |-> [a EXCEPT !.accept = AfterDialFailure, !.closed = TRUE],
          conn |-> "closed"]
    ELSE [api |-> a, conn |-> "proxied"]

\* History: GetServices got its answer after an earlier connection had
\* been closed.
Answered(a) == [a EXCEPT !.recovered = a.closed]

(***************************************************************************)
(* LandingScreen.updateServices, one tick of the overview poll loop:       *)
(* GetServices, then DockerClient.UpdateServices and                       *)
(* DisplayManager.UpdateServices (the services with ports, by name).       *)
(***************************************************************************)
\* A tick that installs the result whatever the error value.
Installed_IgnoresError(err, new, old) == new

\* The "if err != nil ... else" of the poll loops: what a tick installs.
Installed(err, new, old) == IF err THEN old ELSE new

updateServicesFail ==
    /\ screen = "Overview"
    /\ AcceptConnection(api).conn # "waiting"
    /\ api' = AcceptConnection(api).api
    /\ SetObjects(heap, Installed(TRUE, EmptyMap, services),
                  Installed(TRUE, <<>>, currentServices), selectedService)
    /\ last' = Last("updateServices", 0, 0, "failed")
    /\ UNCHANGED <<sshVars, portMappings, screen, commands>>
    /\ RenderStep("poll")
    /\ pollers' = FinishTick(pollers, screen)
    /\ UNCHANGED <<mutexVars, running>>

updateServices(containers) ==
    /\ screen = "Overview"
    /\ AcceptConnection(api).conn = "proxied"
    /\ api' = Answered(AcceptConnection(api).api)
    /\ \E G \in {GetServices(SSHState, containers)} :
       LET base == Len(heap)
           h == heap \o G.objs
           svc == [n \in DOMAIN G.byName |-> base + G.byName[n]]
           withPorts == {n \in DOMAIN svc : Len(h[svc[n]].ExposedPorts) > 0}
           sorted == SortNames(withPorts)
           cur == [i \in 1..Len(sorted) |-> svc[sorted[i]]]
       IN /\ SetSSH(G.T)
          /\ running' = (running /\ ~G.panic)
          /\ IF G.panic
             THEN UNCHANGED <<heap, services, currentServices,
                              selectedService>>
             ELSE SetObjects(h, Installed(FALSE, svc, services),
                             Installed(FALSE, cur, currentServices),
                             selectedService)
    /\ last' = Last("other", 0, 0, "")
    /\ UNCHANGED <<portMappings, screen, commands>>
    /\ RenderStep("poll")
    /\ pollers' = FinishTick(pollers, screen)
    /\ UNCHANGED mutexVars

(***************************************************************************)
(* ServiceDetailScreen.updateService, one tick of the detail poll loop:    *)
(* GetServices, then the selection is replaced by the new object of the    *)
(* same name, if any.  The service map is not written.                     *)
(***************************************************************************)
updateServiceFail ==
    /\ screen = "Detail"
    /\ selectedService # Nil
    /\ AcceptConnection(api).conn # "waiting"
    /\ api' = AcceptConnection(api).api
    /\ last' = Last("other", 0, 0, "")
    /\ UNCHANGED <<sshVars, dockerVars, displayVars, commands>>
    /\ RenderStep("poll")
    /\ pollers' = FinishTick(pollers, screen)
    /\ UNCHANGED <<mutexVars, running>>

updateService(containers) ==
    /\ screen = "Detail"
    /\ selectedService # Nil
    /\ AcceptConnection(api).conn = "proxied"
    /\ api' = Answered(AcceptConnection(api).api)
    /\ LET G == GetServices(SSHState, containers)
           base == Len(heap)
           h == heap \o G.objs
           name == heap[selectedService].Name
           sel == IF name \in DOMAIN G.byName THEN base + G.byName[name]
                  ELSE selectedService
       IN /\ SetSSH(G.T)
          /\ running' = (running /\ ~G.panic)
          /\ IF G.panic
             THEN UNCHANGED <<heap, services, currentServices,
                              selectedService>>
             ELSE SetObjects(h, services, currentServices, sel)
    /\ last' = Last("other", 0, 0, "")
    /\ UNCHANGED <<portMappings, screen, commands>>
    /\ RenderStep("poll")
    /\ pollers' = FinishTick(pollers, screen)
    /\ UNCHANGED mutexVars

(***************************************************************************)
(* LandingScreen.HandleInput with a service index, and                     *)
(* ServiceDetailScreen.HandleInput with "b".                               *)
(***************************************************************************)
selectService(idx) ==
    /\ screen = "Overview"
    /\ idx >= 0 /\ idx < Len(currentServices)
    /\ BagIn(Poller("Overview", "waiting", TRUE), pollers)
    /\ pollers' = SwitchPoller(pollers, "Overview", "Detail")
    /\ SetObjects(heap, services, currentServices, currentServices[idx + 1])
    /\ screen' = "Detail"
    /\ last' = Last("other", 0, 0, "")
    /\ UNCHANGED <<sshVars, portMappings, commands>>
    /\ RenderStep("main")
    /\ UNCHANGED <<mutexVars, api, running>>

backToOverview ==
    /\ screen = "Detail"
    /\ BagIn(Poller("Detail", "waiting", TRUE), pollers)
    /\ pollers' = SwitchPoller(pollers, "Detail", "Overview")
    /\ SetObjects(heap, services, currentServices, Nil)
    /\ screen' = "Overview"
    /\ last' = Last("other", 0, 0, "")
    /\ UNCHANGED <<sshVars, portMappings, commands>>
    /\ render.pc # "ports"
    /\ RenderStep("main")
    /\ UNCHANGED <<mutexVars, api, running>>

(***************************************************************************)
(* DockerClient.GetLocalProcessForPort: the process lsof -i :port names.   *)
(***************************************************************************)
GetLocalProcessForPort(T, port) ==
    IF port \notin LocalPorts THEN NoProc
    ELSE IF T.foreign[port] # NoProc THEN T.foreign[port]
    ELSE IF ListeningOn(T.sessions, port) # {}
    THEN [kind |-> "ssh", mine |-> TRUE]
    ELSE NoProc

(***************************************************************************)
(* DisplayManager.handleKillProcess(port), reached by "<index> kill" in    *)
(* the service detail screen.                                              *)
(***************************************************************************)
handleKillProcessBody(portIdx) ==
    /\ commands > 0
    /\ commands' = commands - 1
    /\ screen = "Detail"
    /\ selectedService # Nil
    /\ portIdx >= 0 /\ portIdx < Len(heap[selectedService].ExposedPorts)
    /\ LET service == heap[selectedService]
           port == service.ExposedPorts[portIdx + 1]
           info == GetLocalProcessForPort(SSHState, port)
       IN IF info = NoProc
          THEN /\ last' = Last("handleKillProcess", port, 0, "none")
               /\ UNCHANGED <<sshVars, dockerVars, displayVars>>
          ELSE IF ~info.mine
          THEN /\ last' = Last("handleKillProcess", port, 0, "killfailed")
               /\ UNCHANGED <<sshVars, dockerVars, displayVars>>
          ELSE LET K == KillOnPort(SSHState, port)
                   M == RemapPort(portMappings, service, port, port)
                   F == ForwardPorts(K, M.service, EmptyMap)
               IN /\ SetSSH(F)
                  /\ portMappings' = M.pm
                  /\ SetObjects([heap EXCEPT ![selectedService] = M.service],
                                services, currentServices, selectedService)
                  /\ last' = Last("handleKillProcess", port, 0, info.kind)
                  /\ UNCHANGED screen
    /\ RenderStep("main")

handleKillProcess(portIdx) ==
    /\ handleKillProcessBody(portIdx)
    /\ UNCHANGED engineVars

\* The refusal looking at the port that is remapped, not at the new port.
RemapBlocked_OldPort(port, newPort, localPorts) == IsPortInUse(port, localPorts)

\* pkg/display.go 158: the remap is refused when the new port is in use.
RemapBlocked(port, newPort, localPorts) == IsPortInUse(newPort, localPorts)

(***************************************************************************)
(* DisplayManager.handleRemapPort(port, newPort), reached by               *)
(* "<index> remap <newPort>" in the service detail screen.                 *)
(***************************************************************************)
handleRemapPortScanFailBody(portIdx, newPort) ==
    /\ commands > 0
    /\ commands' = commands - 1
    /\ screen = "Detail"
    /\ selectedService # Nil
    /\ portIdx >= 0 /\ portIdx < Len(heap[selectedService].ExposedPorts)
    /\ last' = Last("handleRemapPort",
                    heap[selectedService].ExposedPorts[portIdx + 1], newPort,
                    "scanfailed")
    /\ UNCHANGED <<sshVars, dockerVars, displayVars>>
    /\ RenderStep("main")

handleRemapPortScanFail(portIdx, newPort) ==
    /\ handleRemapPortScanFailBody(portIdx, newPort)
    /\ UNCHANGED engineVars

handleRemapPortBody(portIdx, newPort) ==
    /\ commands > 0
    /\ commands' = commands - 1
    /\ screen = "Detail"
    /\ selectedService # Nil
    /\ portIdx >= 0 /\ portIdx < Len(heap[selectedService].ExposedPorts)
    /\ LET service == heap[selectedService]
           port == service.ExposedPorts[portIdx + 1]
           localPorts == parseLocalPorts(SSHState)
       IN IF RemapBlocked(port, newPort, localPorts)
          THEN /\ last' = Last("handleRemapPort", port, newPort, "rejected")
               /\ UNCHANGED <<sshVars, dockerVars, displayVars>>
          ELSE LET M == RemapPort(portMappings, service, port, newPort)
                   portMap == MapPut(EmptyMap, port, newPort)
                   F == ForwardPorts(SSHState, M.service, portMap)
               IN /\ SetSSH(F)
                  /\ portMappings' = M.pm
                  /\ SetObjects([heap EXCEPT ![selectedService] = M.service],
                                services, currentServices, selectedService)
                  /\ last' = Last("handleRemapPort", port, newPort,
                                  IF contains(service.Conflicts, port)
                                  THEN "resolved" ELSE "done")
                  /\ UNCHANGED screen
    /\ RenderStep("main")

handleRemapPort(portIdx, newPort) ==
    /\ handleRemapPortBody(portIdx, newPort)
    /\ UNCHANGED engineVars

(***************************************************************************)
(* DockerClient.UpdateForwardingStatus, under d.mu, for every service of   *)
(* the service map.                                                        *)
(***************************************************************************)
UpdateForwardingStatusFail ==
    /\ last' = Last("other", 0, 0, "")
    /\ UNCHANGED <<sshVars, dockerVars, displayVars, commands>>
    /\ RenderStep("api")
    /\ UNCHANGED engineVars

UpdateForwardingStatus ==
    /\ LET localPorts == parseLocalPorts(SSHState)
           h == [a \in DOMAIN heap |->
                    IF a \in Range(services)
                    THEN UpdateServiceStatus(heap[a], localPorts)
                    ELSE heap[a]]
       IN SetObjects(h, services, currentServices, selectedService)
    /\ last' = Last("other", 0, 0, "")
    /\ UNCHANGED <<sshVars, portMappings, screen, commands>>
    /\ RenderStep("api")
    /\ UNCHANGED engineVars

(***************************************************************************)
(* The session goroutine (pkg/ssh.go 112-122) and its ssh process.         *)
(***************************************************************************)
\* The process has connected and binds its local port.
SessionBind(s) ==
    /\ BagIn(s, sessions)
    /\ s.st = "Starting"
    /\ sessions' = ReplaceSession(sessions, s,
            [s EXCEPT !.st = IF PortFree(SSHState, s.l) THEN "Listening"
                             ELSE "Unbound"])
    /\ last' = Last("other", 0, 0, "")
    /\ UNCHANGED <<ports, foreign, dockerVars, displayVars, commands>>
    /\ UNCHANGED <<render, engineVars>>

\* Run returns an error: the process could not run, lost its connection
\* or was killed.
SessionRunError(s) ==
    /\ BagIn(s, sessions)
    /\ s.st \in LiveStates
    /\ sessions' = ReplaceSession(sessions, s, [s EXCEPT !.st = "Exited"])
    /\ last' = Last("other", 0, 0, "")
    /\ UNCHANGED <<ports, foreign, dockerVars, displayVars, commands>>
    /\ UNCHANGED <<render, engineVars>>

\* Run returns nil: the loop runs the command again.
SessionRunAgain(s) ==
    /\ BagIn(s, sessions)
    /\ s.st \in {"Listening", "Unbound"}
    /\ sessions' = ReplaceSession(sessions, s, [s EXCEPT !.st = "Starting"])
    /\ last' = Last("other", 0, 0, "")
    /\ UNCHANGED <<ports, foreign, dockerVars, displayVars, commands>>
    /\ UNCHANGED <<render, engineVars>>

\* After the error: lock, delete(s.ports, remotePort), unlock, return.
SessionExit(s) ==
    /\ BagIn(s, sessions)
    /\ s.st = "Exited"
    /\ ports' = MapDelete(ports, s.r)
    /\ sessions' = sessions (-) SetToBag({s})
    /\ last' = Last("other", 0, 0, "")
    /\ UNCHANGED <<foreign, dockerVars, displayVars, commands>>
    /\ UNCHANGED <<render, engineVars>>

(***************************************************************************)
(* Other processes of the local machine.                                   *)
(***************************************************************************)
ForeignStart(p, proc) ==
    /\ PortFree(SSHState, p)
    /\ NumForeign(foreign) < MaxForeign
    /\ foreign' = [foreign EXCEPT ![p] = proc]
    /\ last' = Last("other", 0, 0, "")
    /\ UNCHANGED <<ports, sessions, dockerVars, displayVars, commands>>
    /\ UNCHANGED <<render, engineVars>>

ForeignStop(p) ==
    /\ foreign[p] # NoProc
    /\ foreign' = [foreign EXCEPT ![p] = NoProc]
    /\ last' = Last("other", 0, 0, "")
    /\ UNCHANGED <<ports, sessions, dockerVars, displayVars, commands>>
    /\ UNCHANGED <<render, engineVars>>

Environment ==
    \/ \E s \in SessionSet(sessions) : SessionBind(s)
    \/ \E s \in SessionSet(sessions) : SessionRunError(s)
    \/ \E s \in SessionSet(sessions) : SessionRunAgain(s)
    \/ \E s \in SessionSet(sessions) : SessionExit(s)
    \/ \E p \in LocalPorts, proc \in ForeignProcs : ForeignStart(p, proc)
    \/ \E p \in LocalPorts : ForeignStop(p)

PortIndexes == 0..(Cardinality(RemotePorts) - 1)

Program ==
    \/ updateServicesFail
    \/ \E c \in DiscoveryResults : updateServices(c)
    \/ updateServiceFail
    \/ \E c \in DiscoveryResults : updateService(c)
    \/ \E idx \in PortIndexes : selectService(idx)
    \/ backToOverview
    \/ \E i \in PortIndexes : handleKillProcess(i)
    \/ \E i \in PortIndexes, n \in LocalPorts : handleRemapPortScanFail(i, n)
    \/ \E i \in PortIndexes, n \in LocalPorts : handleRemapPort(i, n)

Next == Program \/ Environment

Spec == Init /\ [][Next]_vars

\* The program together with calls of DockerClient.UpdateForwardingStatus.
NextAPI == Next \/ UpdateForwardingStatusFail \/ UpdateForwardingStatus

SpecAPI == Init /\ [][NextAPI]_vars


(***************************************************************************)
(* The tunnel registry alone: ForwardPort called with the arguments the    *)
(* program passes (the port itself, "", or a new local port that the scan  *)
(* found free), the sessions and the local machine.                        *)
(***************************************************************************)
CallForwardPort(remotePort, localPort) ==
    /\ \/ localPort \in {remotePort, Empty}
       \/ ~IsPortInUse(localPort, parseLocalPorts(SSHState))
    /\ SetSSH(ForwardPort(SSHState, remotePort, localPort))
    /\ LET l == IF localPort = Empty THEN remotePort ELSE localPort
       IN last' = Last("ForwardPort", remotePort, l,
                       IF last.op = "ForwardPort" /\ last.a = remotePort
                          /\ last.b = l
                       THEN "again" ELSE "first")
    /\ UNCHANGED <<dockerVars, displayVars, commands>>
    /\ UNCHANGED <<render, engineVars>>

NextTunnel ==
    \/ \E r \in RemotePorts, l \in LocalPorts \cup {Empty} : CallForwardPort(r, l)
    \/ Environment

SpecTunnel == Init /\ [][NextTunnel]_vars

(***************************************************************************)
(* The program with the renderings of the detail screen, by the main loop  *)
(* and by the poll goroutine, step by step.                                *)
(***************************************************************************)
NextRender ==
    \/ Program
    \/ \E thread \in {"main", "poll"} : DisplayInfo(thread)
    \/ DisplayPorts

SpecRender == Init /\ [][NextRender]_vars

(***************************************************************************)
(* The operator's input lines in the service detail screen.  A line is the *)
(* sequence of its fields (strings.Fields), a field is a text: a number,   *)
(* or one of the words kill, remap and b.                                  *)
(***************************************************************************)
KillWord == -2
RemapWord == -3
BackWord == -4

DetailInputs ==
    {<< <<BackWord>> >>}
    \cup {<<PortText(i), <<KillWord>>>> : i \in PortIndexes}
    \cup {<<PortText(i), <<RemapWord>>, PortText(n)>> :
              i \in PortIndexes, n \in LocalPorts}
    \cup {<<PortText(i), PortText(n)>> : i \in PortIndexes, n \in LocalPorts}
    \cup {<<PortText(i), <<RemapWord>>>> : i \in PortIndexes}

NoCommand == [kind |-> "unhandled", portIdx |-> 0, newPort |-> <<>>]

\* ServiceDetailScreen.HandleInput: the handler the line is given to.
DetailCommand(parts, exposed) ==
    IF parts = << <<BackWord>> >>
    THEN [NoCommand EXCEPT !.kind = "back"]
    ELSE IF Len(parts) < 2 THEN NoCommand
    ELSE LET portIdx == Atoi(parts[1])
             cmd == parts[2]
         IN IF ~portIdx.ok \/ portIdx.n < 0 \/ portIdx.n >= Len(exposed)
            THEN NoCommand
            ELSE IF cmd = <<KillWord>>
            THEN [NoCommand EXCEPT !.kind = "kill", !.portIdx = portIdx.n]
            ELSE IF cmd = <<RemapWord>> /\ Len(parts) = 3
            THEN [kind |-> "remap", portIdx |-> portIdx.n,
                  newPort |-> parts[3]]
            ELSE NoCommand

\* The main loop with a line the screen did not handle: the line is not
\* "b" and strconv.Atoi of a line of several fields fails; the screen is
\* rendered again.
unhandledInput(parts) ==
    /\ Len(parts) > 1
    /\ last' = Last("HandleInput", 0, 0, "unhandled")
    /\ UNCHANGED <<sshVars, dockerVars, displayVars, commands>>
    /\ RenderStep("main")
    /\ UNCHANGED engineVars

HandleInput(parts) ==
    /\ screen = "Detail"
    /\ selectedService # Nil
    /\ LET c == DetailCommand(parts, heap[selectedService].ExposedPorts)
       IN \/ c.kind = "back" /\ backToOverview
          \/ c.kind = "kill" /\ handleKillProcess(c.portIdx)
          \/ c.kind = "remap" /\ handleRemapPort(c.portIdx, c.newPort[1])
          \/ c.kind = "remap"
             /\ handleRemapPortScanFail(c.portIdx, c.newPort[1])
          \/ c.kind = "unhandled" /\ unhandledInput(parts)

InitOperator ==
    /\ ports = EmptyMap
    /\ sessions = EmptyBag
    /\ foreign = [p \in LocalPorts |-> NoProc]
    /\ portMappings = EmptyMap
    /\ heap = <<>>
    /\ services = EmptyMap
    /\ currentServices = <<>>
    /\ selectedService = Nil
    /\ screen = "Overview"
    /\ commands = MaxOperatorCommands
    /\ render = RenderIdle
    /\ InitEngine
    /\ last = Last("init", 0, 0, "")

\* The remote daemon runs one container, web, which publishes port 9.
OperatorDiscovery == {<< Container(WebName, "running", UpText, <<9>>) >>}

NextOperator ==
    \/ updateServicesFail
    \/ \E c \in OperatorDiscovery : updateServices(c)
    \/ updateServiceFail
    \/ \E c \in OperatorDiscovery : updateService(c)
    \/ \E idx \in PortIndexes : selectService(idx)
    \/ \E parts \in DetailInputs : HandleInput(parts)
    \/ Environment

SpecOperator == InitOperator /\ [][NextOperator]_vars

(***************************************************************************)
(* The discovery against the remote daemon: the answers include a record   *)
(* without a name, the dial of the daemon socket fails and works again.    *)
(* A process that has panicked takes no step; the processes of the local   *)
(* machine go on.                                                          *)
(***************************************************************************)
Nameless == [Names |-> <<>>, State |-> "created", Status |-> <<"Created">>,
             Ports |-> <<>>]

DaemonAnswers ==
    DiscoveryResults
    \cup { << Nameless >>,
           << Container(WebName, "running", UpText, <<9>>), Nameless >> }

SocketFails ==
    /\ api.dial = "ok"
    /\ api' = [api EXCEPT !.dial = "failing"]
    /\ last' = Last("other", 0, 0, "")
    /\ UNCHANGED <<sshVars, dockerVars, displayVars, commands, render>>
    /\ UNCHANGED <<lockVars, running>>

SocketRecovers ==
    /\ api.dial = "failing"
    /\ api' = [api EXCEPT !.dial = "ok"]
    /\ last' = Last("other", 0, 0, "")
    /\ UNCHANGED <<sshVars, dockerVars, displayVars, commands, render>>
    /\ UNCHANGED <<lockVars, running>>

NextDiscovery ==
    \/ running /\ updateServicesFail
    \/ running /\ \E c \in DaemonAnswers : updateServices(c)
    \/ running /\ updateServiceFail
    \/ running /\ \E c \in DaemonAnswers : updateService(c)
    \/ running /\ \E idx \in PortIndexes : selectService(idx)
    \/ running /\ backToOverview
    \/ SocketFails
    \/ SocketRecovers
    \/ Environment

SpecDiscovery == Init /\ [][NextDiscovery]_vars

(***************************************************************************)
(* The screens and their poll goroutines: the tick of a poll loop in two   *)
(* steps (the refresh begins, the refresh returns), and the input lines    *)
(* that are a number.  A number the current screen does not handle makes   *)
(* the main loop connect to the server with that index and open a new      *)
(* overview screen (main.go 219-241).  The model follows the connection    *)
(* from the states in which no tunnel session exists.                      *)
(***************************************************************************)
\* The ticker fires: the goroutine enters updateServices / updateService.
tickBegin(p) ==
    /\ BagIn(p, pollers)
    /\ p.st = "waiting"
    /\ pollers' = (pollers (-) SetToBag({p}))
                      (+) SetToBag({[p EXCEPT !.st = "refreshing"]})
    /\ last' = Last("other", 0, 0, "")
    /\ UNCHANGED <<sshVars, dockerVars, displayVars, commands, render>>
    /\ UNCHANGED <<mutexVars, api, running>>

\* The poll goroutines after SetMode(ModeOverview) without stopPolling.
RECURSIVE Orphaned(_)
Orphaned(ps) ==
    LET cur == {p \in BagToSet(ps) : p.cur}
    IN IF cur = {} THEN ps
       ELSE LET p == CHOOSE x \in cur : TRUE
            IN Orphaned((ps (-) SetToBag({p}))
                            (+) SetToBag({[p EXCEPT !.cur = FALSE]}))

\* NewSSHClient fails: the old client is closed, the loop continues.
connectServerFail(idx) ==
    /\ idx >= 0 /\ idx < MaxServers
    /\ api' = [api EXCEPT !.dial = "failing"]
    /\ last' = Last("connect", idx, 0, "failed")
    /\ UNCHANGED <<sshVars, dockerVars, displayVars, commands, render>>
    /\ UNCHANGED <<lockVars, running>>

\* New SSHClient and DockerClient, SetDockerClient, SetMode(ModeOverview).
connectServer(idx) ==
    /\ idx >= 0 /\ idx < MaxServers
    /\ sessions = EmptyBag
    /\ BagCardinality(pollers) < MaxPollers
    /\ ports' = EmptyMap
    /\ portMappings' = EmptyMap
    /\ SetObjects(heap, EmptyMap, currentServices, selectedService)
    /\ screen' = "Overview"
    /\ pollers' = Orphaned(pollers)
                      (+) SetToBag({Poller("Overview", "waiting", TRUE)})
    /\ api' = [api EXCEPT !.accept = "accepting", !.dial = "ok"]
    /\ last' = Last("connect", idx, 0, "connected")
    /\ UNCHANGED <<sessions, foreign, commands>>
    /\ RenderStep("main")
    /\ UNCHANGED <<mutexVars, running>>

\* LandingScreen.HandleInput and ServiceDetailScreen.HandleInput with a
\* line that is a number, then the main loop when they return false.
numberInput(idx) ==
    LET handled == screen = "Overview" /\ idx < Len(currentServices)
    IN \/ handled /\ selectService(idx)
       \/ ~handled /\ connectServer(idx)
       \/ ~handled /\ connectServerFail(idx)

\* The remote daemon runs no container, or the container web.
ScreensDiscovery == {<<>>} \cup OperatorDiscovery

NextScreens ==
    \/ \E p \in BagToSet(pollers) : tickBegin(p)
    \/ updateServicesFail
    \/ \E c \in ScreensDiscovery : updateServices(c)
    \/ updateServiceFail
    \/ \E c \in ScreensDiscovery : updateService(c)
    \/ \E idx \in PortIndexes : numberInput(idx)
    \/ backToOverview
    \/ \E s \in SessionSet(sessions) : SessionBind(s)
    \/ \E s \in SessionSet(sessions) : SessionRunError(s)
    \/ \E s \in SessionSet(sessions) : SessionRunAgain(s)
    \/ \E s \in SessionSet(sessions) : SessionExit(s)

SpecScreens == Init /\ [][NextScreens]_vars

(***************************************************************************)
(* The goroutines inside the operations that lock: ForwardPort and the     *)
(* exit handling of a session goroutine (s.mu), UpdateServices, RemapPort  *)
(* and UpdateForwardingStatus (d.mu).  An operation is entered (the Lock   *)
(* at its head returns) and then runs to its return, where the deferred    *)
(* Unlock runs.  pc holds the frame of a goroutine that is inside an       *)
(* operation, and of the poll goroutine between GetServices and            *)
(* UpdateServices.                                                         *)
(***************************************************************************)
Frame(op, r, l, objs, byName) ==
    [op |-> op, r |-> r, l |-> l, objs |-> objs, byName |-> byName]

\* The operations of DockerClient that begin with d.mu.Lock(), without
\* RemapPort.
WriteLocked_NoRemap == {"UpdateServices", "UpdateForwardingStatus"}

\* The operations of DockerClient that begin with d.mu.Lock().
WriteLocked == {"UpdateServices", "RemapPort", "UpdateForwardingStatus"}

\* The code of SSHClient that takes s.mu, without the exit handling.
MutexLocked_NoExit == {"ForwardPort"}

\* The code of SSHClient that takes s.mu: ForwardPort (82) and the exit
\* handling of the session goroutine (116).
MutexLocked == {"ForwardPort", "exit"}

\* Lock of mutex m at the head of op, by goroutine g: it returns when the
\* mutex is free.  Unlock at the return of op.
Lock(m, g, op, locked) ==
    IF op \in locked THEN [ok |-> m = Free, m |-> g]
    ELSE [ok |-> TRUE, m |-> m]

Unlock(m, g, op, locked) == IF op \in locked THEN Free ELSE m

ForwardPortEnter(g, remotePort, localPort) ==
    /\ g \notin DOMAIN pc
    /\ commands > 0
    /\ commands' = commands - 1
    /\ \/ localPort \in {remotePort, Empty}
       \/ ~IsPortInUse(localPort, parseLocalPorts(SSHState))
    /\ Lock(sshMu, g, "ForwardPort", MutexLocked).ok
    /\ sshMu' = Lock(sshMu, g, "ForwardPort", MutexLocked).m
    /\ pc' = MapPut(pc, g, Frame("ForwardPort", remotePort, localPort, <<>>,
                                 EmptyMap))
    /\ last' = Last("other", 0, 0, "")
    /\ UNCHANGED <<sshVars, dockerVars, displayVars, render>>
    /\ UNCHANGED <<displayMu, mu, pollers, api, running>>

ForwardPortReturn(g) ==
    /\ g \in DOMAIN pc
    /\ pc[g].op = "ForwardPort"
    /\ SetSSH(ForwardPort(SSHState, pc[g].r, pc[g].l))
    /\ sshMu' = Unlock(sshMu, g, "ForwardPort", MutexLocked)
    /\ pc' = MapDelete(pc, g)
    /\ last' = Last("ForwardPort", pc[g].r, pc[g].l, sshMu)
    /\ UNCHANGED <<dockerVars, displayVars, commands, render>>
    /\ UNCHANGED <<displayMu, mu, pollers, api, running>>

\* pkg/ssh.go 115-116: Run has returned an error, s.mu.Lock().
exitHandlerEnter(s) ==
    /\ BagIn(s, sessions)
    /\ s.st = "Exited"
    /\ "session" \notin DOMAIN pc
    /\ Lock(sshMu, "session", "exit", MutexLocked).ok
    /\ sshMu' = Lock(sshMu, "session", "exit", MutexLocked).m
    /\ sessions' = ReplaceSession(sessions, s, [s EXCEPT !.st = "Deleting"])
    /\ pc' = MapPut(pc, "session", Frame("exit", s.r, s.l, <<>>, EmptyMap))
    /\ last' = Last("other", 0, 0, "")
    /\ UNCHANGED <<ports, foreign, dockerVars, displayVars, commands, render>>
    /\ UNCHANGED <<displayMu, mu, pollers, api, running>>

\* pkg/ssh.go 117-119: delete(s.ports, remotePort), s.mu.Unlock(), return.
exitHandlerReturn(s) ==
    /\ BagIn(s, sessions)
    /\ s.st = "Deleting"
    /\ ports' = MapDelete(ports, s.r)
    /\ sessions' = sessions (-) SetToBag({s})
    /\ sshMu' = Unlock(sshMu, "session", "exit", MutexLocked)
    /\ pc' = MapDelete(pc, "session")
    /\ last' = Last("exit", s.r, s.l, sshMu)
    /\ UNCHANGED <<foreign, dockerVars, displayVars, commands, render>>
    /\ UNCHANGED <<displayMu, mu, pollers, api, running>>

\* LandingScreen.updateServices 61: GetServices has returned the new map;
\* its ForwardPort calls have taken and released s.mu.
GetServicesCall(containers) ==
    /\ screen = "Overview"
    /\ "poll" \notin DOMAIN pc
    /\ sshMu = Free
    /\ LET G == GetServices(SSHState, containers)
       IN /\ ~G.panic
          /\ SetSSH(G.T)
          /\ pc' = MapPut(pc, "poll",
                          Frame("GetServices", 0, 0, G.objs, G.byName))
    /\ last' = Last("other", 0, 0, "")
    /\ UNCHANGED <<dockerVars, displayVars, commands, render>>
    /\ UNCHANGED <<displayMu, mu, sshMu, pollers, api, running>>

UpdateServicesEnter ==
    /\ "poll" \in DOMAIN pc
    /\ pc["poll"].op = "GetServices"
    /\ Lock(mu, "poll", "UpdateServices", WriteLocked).ok
    /\ mu' = Lock(mu, "poll", "UpdateServices", WriteLocked).m
    /\ pc' = [pc EXCEPT !["poll"].op = "UpdateServices"]
    /\ last' = Last("other", 0, 0, "")
    /\ UNCHANGED <<sshVars, dockerVars, displayVars, commands, render>>
    /\ UNCHANGED <<displayMu, sshMu, pollers, api, running>>

\* d.services = services and the return, then DisplayManager.UpdateServices.
UpdateServicesReturn ==
    /\ "poll" \in DOMAIN pc
    /\ pc["poll"].op = "UpdateServices"
    /\ LET base == Len(heap)
           h == heap \o pc["poll"].objs
           svc == [n \in DOMAIN pc["poll"].byName |->
                      base + pc["poll"].byName[n]]
           withPorts == {n \in DOMAIN svc : Len(h[svc[n]].ExposedPorts) > 0}
           sorted == SortNames(withPorts)
           cur == [i \in 1..Len(sorted) |-> svc[sorted[i]]]
       IN SetObjects(h, svc, cur, selectedService)
    /\ mu' = Unlock(mu, "poll", "UpdateServices", WriteLocked)
    /\ pc' = MapDelete(pc, "poll")
    /\ last' = Last("UpdateServices", 0, 0, mu)
    /\ UNCHANGED <<sshVars, portMappings, screen, commands, render>>
    /\ UNCHANGED <<displayMu, sshMu, pollers, api, running>>

RemapPortEnter(portIdx, localPort) ==
    /\ screen = "Detail"
    /\ selectedService # Nil
    /\ "main" \notin DOMAIN pc
    /\ commands > 0
    /\ commands' = commands - 1
    /\ portIdx >= 0 /\ portIdx < Len(heap[selectedService].ExposedPorts)
    /\ Lock(mu, "main", "RemapPort", WriteLocked).ok
    /\ mu' = Lock(mu, "main", "RemapPort", WriteLocked).m
    /\ pc' = MapPut(pc, "main",
                    Frame("RemapPort",
                          heap[selectedService].ExposedPorts[portIdx + 1],
                          localPort, <<>>, EmptyMap))
    /\ last' = Last("other", 0, 0, "")
    /\ UNCHANGED <<sshVars, dockerVars, displayVars, render>>
    /\ UNCHANGED <<displayMu, sshMu, pollers, api, running>>

RemapPortReturn ==
    /\ "main" \in DOMAIN pc
    /\ pc["main"].op = "RemapPort"
    /\ LET M == RemapPort(portMappings, heap[selectedService], pc["main"].r,
                          pc["main"].l)
       IN /\ portMappings' = M.pm
          /\ SetObjects([heap EXCEPT ![selectedService] = M.service],
                        services, currentServices, selectedService)
    /\ mu' = Unlock(mu, "main", "RemapPort", WriteLocked)
    /\ pc' = MapDelete(pc, "main")
    /\ last' = Last("RemapPort", pc["main"].r, pc["main"].l, mu)
    /\ UNCHANGED <<sshVars, screen, commands, render>>
    /\ UNCHANGED <<displayMu, sshMu, pollers, api, running>>

UpdateForwardingStatusEnter ==
    /\ "api" \notin DOMAIN pc
    /\ Lock(mu, "api", "UpdateForwardingStatus", WriteLocked).ok
    /\ mu' = Lock(mu, "api", "UpdateForwardingStatus", WriteLocked).m
    /\ pc' = MapPut(pc, "api",
                    Frame("UpdateForwardingStatus", 0, 0,
                          SortPortStrings(parseLocalPorts(SSHState)),
                          EmptyMap))
    /\ last' = Last("other", 0, 0, "")
    /\ UNCHANGED <<sshVars, dockerVars, displayVars, commands, render>>
    /\ UNCHANGED <<displayMu, sshMu, pollers, api, running>>

UpdateForwardingStatusReturn ==
    /\ "api" \in DOMAIN pc
    /\ pc["api"].op = "UpdateForwardingStatus"
    /\ LET localPorts == SeqToSet(pc["api"].objs)
           h == [a \in DOMAIN heap |->
                    IF a \in Range(services)
                    THEN UpdateServiceStatus(heap[a], localPorts)
                    ELSE heap[a]]
       IN SetObjects(h, services, currentServices, selectedService)
    /\ mu' = Unlock(mu, "api", "UpdateForwardingStatus", WriteLocked)
    /\ pc' = MapDelete(pc, "api")
    /\ last' = Last("UpdateForwardingStatus", 0, 0, mu)
    /\ UNCHANGED <<sshVars, portMappings, screen, commands, render>>
    /\ UNCHANGED <<displayMu, sshMu, pollers, api, running>>

NextLocks ==
    \/ \E r \in RemotePorts, l \in LocalPorts \cup {Empty} :
          ForwardPortEnter("main", r, l)
    \/ ForwardPortReturn("main")
    \/ \E s \in SessionSet(sessions) : exitHandlerEnter(s)
    \/ \E s \in SessionSet(sessions) : exitHandlerReturn(s)
    \/ \E c \in ScreensDiscovery : GetServicesCall(c)
    \/ UpdateServicesEnter
    \/ UpdateServicesReturn
    \/ \E i \in PortIndexes, l \in LocalPorts : RemapPortEnter(i, l)
    \/ RemapPortReturn
    \/ UpdateForwardingStatusEnter
    \/ UpdateForwardingStatusReturn
    \/ DOMAIN pc = {} /\ \E idx \in PortIndexes : selectService(idx)
    \/ DOMAIN pc = {} /\ backToOverview
    \/ \E s \in SessionSet(sessions) : SessionBind(s)
    \/ \E s \in SessionSet(sessions) : SessionRunError(s)

SpecLocks == Init /\ [][NextLocks]_vars

(***************************************************************************)
(* The monitor connected and polling: the container web runs and publishes *)
(* port 9 all the time, the overview poll loop ticks every two seconds     *)
(* (time.Ticker), and a session goroutine whose Run has returned handles   *)
(* the error.  Ticks can fail; a tick that succeeds comes again and again. *)
(* The server stays reachable: an ssh process can die, but of the ssh      *)
(* processes started again and again one gets to its bind.  When a foreign *)
(* process starts or stops is up to the local machine.                     *)
(***************************************************************************)
\* The answers of the daemon in which web publishes port 9.
PollingDiscovery ==
    {c \in DiscoveryResults :
        \E i \in 1..Len(c) :
            /\ c[i].Names = <<WebName>>
            /\ 9 \in SeqToSet(extractPorts(c[i].Ports))}

NextPolling ==
    \/ updateServicesFail
    \/ \E c \in PollingDiscovery : updateServices(c)
    \/ Environment

PollingFairness ==
    /\ WF_vars(\E c \in PollingDiscovery : updateServices(c))
    /\ SF_vars(\E s \in SessionSet(sessions) : SessionBind(s))
    /\ WF_vars(\E s \in SessionSet(sessions) : SessionExit(s))

SpecPolling == Init /\ [][NextPolling]_vars /\ PollingFairness

(***************************************************************************)
(* The functions of the discovery and of ForwardPorts on their own: the    *)
(* initial state holds the arguments of one call, the step makes the       *)
(* call.  last.a holds the arguments and last.res the result.              *)
(***************************************************************************)
MaxPortRecords == 3

RawStates ==
    {"running", "created", "restarting", "removing", "paused", "exited",
     "dead", "stopped"}

HealthyText == <<"Up ", "2 minutes", " (", "healthy", ")">>
StartingText == <<"Up ", "2 seconds", " (", "health: starting", ")">>
StatusTexts == {UpText, UnhealthyText, HealthyText, StartingText, <<>>}

\* Port records by their PublicPort, 0 for a port that is not published.
PortRecordLists ==
    UNION {[1..n -> RemotePorts \cup {0}] : n \in 0..MaxPortRecords}

ExposedTexts ==
    { << <<9>> >>,
      << <<9, Dash, 11>> >>,
      << <<10>>, <<9, Dash, 10>> >>,
      << <<10, Dash, 9>> >>,
      << <<9, Dash>>, <<10>> >>,
      << <<9, Dash, 10, Dash, 11>> >> }

PortMaps == {EmptyMap, MapPut(EmptyMap, 9, 11), MapPut(MapPut(EmptyMap, 10, 11), 11, 9)}

InitFunctions ==
    /\ ports = EmptyMap
    /\ sessions = EmptyBag
    /\ foreign = [p \in LocalPorts |-> NoProc]
    /\ portMappings = EmptyMap
    /\ heap = <<>>
    /\ services = EmptyMap
    /\ currentServices = <<>>
    /\ selectedService = Nil
    /\ screen = "Overview"
    /\ commands = 0
    /\ render = RenderIdle
    /\ InitEngine
    /\ \/ \E state \in RawStates, status \in StatusTexts :
             last = Last("input", [state |-> state, status |-> status],
                         "parseContainerState", "")
       \/ \E records \in PortRecordLists :
             last = Last("input", records, "extractPorts", "")
       \/ \E exposed \in ExposedTexts, portMap \in PortMaps :
             last = Last("input", [exposed |-> exposed, portMap |-> portMap],
                         "ForwardPorts", "")

CallParseContainerState ==
    /\ last.op = "input"
    /\ last.b = "parseContainerState"
    /\ last' = Last("parseContainerState", last.a, 0,
                    parseContainerState(last.a.state, last.a.status))
    /\ UNCHANGED <<sshVars, dockerVars, displayVars, commands>>
    /\ UNCHANGED <<render, engineVars>>

CallExtractPorts ==
    /\ last.op = "input"
    /\ last.b = "extractPorts"
    /\ last' = Last("extractPorts", last.a, 0, extractPorts(last.a))
    /\ UNCHANGED <<sshVars, dockerVars, displayVars, commands>>
    /\ UNCHANGED <<render, engineVars>>

CallForwardPorts ==
    /\ last.op = "input"
    /\ last.b = "ForwardPorts"
    /\ LET T == ForwardPortsText(SSHState, last.a.exposed, last.a.portMap)
       IN /\ ports' = T.ports
          /\ sessions' = T.sessions
          /\ foreign' = T.foreign
    /\ last' = Last("ForwardPorts", last.a, 0,
                    ForwardPortsFrom(last.a.exposed, 1, last.a.portMap))
    /\ UNCHANGED <<dockerVars, displayVars, commands>>
    /\ UNCHANGED <<render, engineVars>>

NextFunctions ==
    \/ CallParseContainerState
    \/ CallExtractPorts
    \/ CallForwardPorts

SpecFunctions == InitFunctions /\ [][NextFunctions]_vars

(***************************************************************************)
(* Properties.                                                             *)
(***************************************************************************)
\* Number of sessions for remote port r whose goroutine and process run.
LiveCount(ss, r) ==
    BagCardinality([s \in {x \in DOMAIN ss : x.r = r /\ x.st \in LiveStates}
                       |-> ss[s]])

\* C1: at most one forwarding session (ssh -L process with its goroutine)
\* is live for any remote port, whatever ForwardPort calls and process
\* exits have happened.
C1_OneSessionPerRemotePort ==
    \A r \in RemotePorts : LiveCount(sessions, r) <= 1

\* C2: for every PortMapping entry (service, remotePort) -> localPort of a
\* service whose forward status is not Error, the session registered for
\* remotePort forwards to localPort; this holds after later poll cycles
\* that follow a RemapPort too.
C2_SessionFollowsMapping ==
    \A n \in DOMAIN services :
        n \in DOMAIN portMappings /\ heap[services[n]].ForwardStatus # StatusError
        => \A r \in DOMAIN portMappings[n] :
              r \in DOMAIN ports => ports[r] = portMappings[n][r]

\* C3: a second ForwardPort with the arguments of the call before it changes
\* nothing in the registry and leaves exactly one session running for the
\* remote port.
C3_ForwardPortIdempotent ==
    [][\A r \in RemotePorts, l \in LocalPorts \cup {Empty} :
          (/\ last.op = "ForwardPort"
           /\ last.a = r
           /\ last.b = (IF l = Empty THEN r ELSE l)
           /\ CallForwardPort(r, l))
          => /\ ports' = ports
             /\ sessions' = sessions
             /\ LiveCount(sessions', r) = 1]_vars

\* C4: a session whose process exits with an error is started again; its
\* goroutine returns only when a later ForwardPort for the same remote port
\* has superseded it.
C4_SessionRetriesUntilSuperseded ==
    [][\A s \in SessionSet(sessions) : SessionExit(s) => s.sup]_vars

\* C5: after a remap of remote port r of service s to newLocal went
\* through, r is not in the conflict set of s and GetPortMapping(s.Name, r)
\* is newLocal.
C5_RemapPostcondition ==
    (last.op = "handleRemapPort" /\ last.res \in {"done", "resolved"})
    => /\ selectedService # Nil
       /\ ~contains(heap[selectedService].Conflicts, last.a)
       /\ GetPortMapping(portMappings, heap[selectedService].Name, last.a)
            = last.b

\* A remap went through for a port that was in the conflict set.
C5_Witness ==
    /\ last.op = "handleRemapPort"
    /\ last.res = "resolved"
    /\ last.a # last.b

\* C6: a remap whose new local port is in the fresh scan of local listeners
\* is rejected, and it changes neither the PortMapping table, nor any
\* service's conflict set or forward status, nor the tunnel registry.
C6_RejectedRemapMutatesNothing ==
    [][\A i \in PortIndexes, n \in LocalPorts :
          (handleRemapPort(i, n) /\ n \in parseLocalPorts(SSHState))
          => /\ last'.res = "rejected"
             /\ UNCHANGED <<portMappings, heap, services, currentServices,
                            selectedService, ports, sessions, foreign>>]_vars

\* A remap to a port a local process listens on has been rejected.
C6_Witness ==
    /\ last.op = "handleRemapPort"
    /\ last.res = "rejected"
    /\ last.b \in parseLocalPorts(SSHState)

\* C7: after the kill action for port p has killed a foreign process that
\* held local port p, the foreign process is gone, a session for p whose
\* process binds or has bound local port p is running, and p is not in the
\* service's conflict set.
C7_KillRetakesPort ==
    (last.op = "handleKillProcess" /\ last.res = "foreign")
    => /\ foreign[last.a] = NoProc
       /\ \E s \in SessionSet(sessions) :
             s.r = last.a /\ s.l = last.a /\ s.st \in {"Starting", "Listening"}
       /\ ~contains(heap[selectedService].Conflicts, last.a)

\* What the conflict computation is to yield for the services of the map:
\* a port is not reported when its local port is held by one of the
\* engine's own sessions, and is reported when a foreign process holds it.
ConflictsExcludeOwnTunnels ==
    \A n \in DOMAIN services :
        LET service == heap[services[n]]
        IN \A i \in 1..Len(service.ExposedPorts) :
              LET p == service.ExposedPorts[i]
                  l == GetPortMapping(portMappings, n, p)
              IN /\ ListeningOn(sessions, l) # {}
                    => ~contains(service.Conflicts, p)
                 /\ foreign[l] # NoProc => contains(service.Conflicts, p)

\* C8: the conflicts computed by UpdateForwardingStatus leave out the ports
\* whose local listener is one of the engine's own tunnel sessions and
\* hold the ports whose local listener is a foreign process.
C8_ConflictsExcludeOwnTunnels ==
    [][UpdateForwardingStatus => ConflictsExcludeOwnTunnels']_vars

\* A port whose local mapping (the PortMapping entry, itself when there is
\* none) no local process listens on is not in its service's conflict set.
FreeMappingNotInConflict ==
    \A n \in DOMAIN services :
        LET service == heap[services[n]]
        IN \A i \in 1..Len(service.ExposedPorts) :
              LET p == service.ExposedPorts[i]
                  l == GetPortMapping(portMappings, n, p)
              IN ~IsPortInUse(l, parseLocalPorts(SSHState))
                 => ~contains(service.Conflicts, p)

\* C9: UpdateForwardingStatus judges a port by its local mapping: a port
\* remapped to a free local port is not in conflict, also when a process
\* listens on the local port with the number of the remote port.
C9_ConflictByLocalMapping ==
    [][UpdateForwardingStatus => FreeMappingNotInConflict']_vars

\* C10: a service with a port in its conflict set has forward status
\* Conflict, in every state reached through UpdateForwardingStatus,
\* forwardPorts and RemapPort; a remap of one port does not take the
\* service out of Conflict while another port is still in conflict.
C10_ConflictPrecedence ==
    \A a \in DOMAIN heap :
        heap[a].Conflicts # <<>> => heap[a].ForwardStatus = StatusConflict

\* A session of remote port p whose process runs and has bound, or is
\* about to bind, its local port.
Forwards(p) ==
    \E s \in SessionSet(sessions) : s.r = p /\ s.st \in {"Starting", "Listening"}

\* The statuses a refresh is to leave in the service map.
RefreshedStatus ==
    \A n \in DOMAIN services :
        LET service == heap[services[n]]
            exposed == SeqToSet(service.ExposedPorts)
        IN /\ exposed = {} => service.ForwardStatus = StatusNotForwarded
           /\ (/\ exposed # {}
               /\ \A p \in exposed :
                     /\ p \in DOMAIN ports
                     /\ p \in LocalPorts => foreign[p] = NoProc)
              => service.ForwardStatus = StatusForwarded

\* C11: after a successful refresh a service without exposed ports has
\* forward status NotForwarded, and a service whose exposed ports are all
\* free locally and forwarded has forward status Forwarded.
C11_RefreshStatus ==
    [][(\E c \in DiscoveryResults : updateServices(c)) => RefreshedStatus']_vars

\* Forwarded only with every port forwarding, Error with a failed port.
ForwardedMeansAllPorts ==
    \A n \in DOMAIN services :
        LET service == heap[services[n]]
            exposed == SeqToSet(service.ExposedPorts)
        IN /\ service.ForwardStatus = StatusForwarded
              => \A p \in exposed : Forwards(p)
           /\ (\E p \in exposed : ~Forwards(p))
              => service.ForwardStatus = StatusError

\* C12: after a refresh a service's forward status is Forwarded only if
\* every one of its exposed ports forwards without error; when the
\* forwarding of one of its ports failed (the process could not bind or
\* exited with an error) the status is Error.
C12_ForwardedOnlyWithoutError ==
    [][(\E c \in DiscoveryResults : updateServices(c))
          => ForwardedMeansAllPorts']_vars

\* The conflict set of every service of the map holds exactly the exposed
\* ports whose local port a foreign process listens on, and a service with
\* conflicts has status Conflict.
ConflictsDetected ==
    \A n \in DOMAIN services :
        LET service == heap[services[n]]
            expected == {p \in SeqToSet(service.ExposedPorts) :
                            LET l == GetPortMapping(portMappings, n, p)
                            IN l \in LocalPorts /\ foreign[l] # NoProc}
        IN /\ SeqToSet(service.Conflicts) = expected
           /\ expected # {} => service.ForwardStatus = StatusConflict

\* C13: every successful refresh cycle, of the overview or of the detail
\* poll loop, runs the conflict detection: after it the conflict sets and
\* the Conflict statuses are those of the local listeners.
C13_RefreshDetectsConflicts ==
    [][(\E c \in DiscoveryResults : updateServices(c) \/ updateService(c))
          => ConflictsDetected']_vars

\* The service names of a poll result.
ServiceNames(containers) ==
    {TrimPrefix(containers[i].Names[1], <<"/">>) : i \in 1..Len(containers)}

\* C14: after every successful poll, of the overview or of the detail poll
\* loop, the service map holds exactly the services of the poll result.
C14_PollReplacesServiceMap ==
    [][\A c \in DiscoveryResults :
          (updateServices(c) \/ updateService(c))
          => DOMAIN services' = ServiceNames(c)]_vars


\* C15: when the discovery query or its decoding fails, the tick of the
\* poll loop leaves the service map, its objects and the displayed list as
\* they were, and the loop stays on its screen for the next tick.
C15_FailedRefreshKeepsServices ==
    [][(updateServicesFail \/ updateServiceFail)
          => /\ UNCHANGED <<services, heap, currentServices, selectedService>>
             /\ UNCHANGED <<portMappings, ports, sessions>>
             /\ screen' = screen]_vars

\* A refresh has failed while the service map held services.
C15_Witness ==
    /\ last.op = "updateServices"
    /\ last.res = "failed"
    /\ services # EmptyMap
    /\ currentServices # <<>>

\* The names of the services the polls can discover.
AllServiceNames == UNION {ServiceNames(c) : c \in DiscoveryResults}

C17_HealthMapping ==
    last.op = "parseContainerState"
    => LET state == last.a.state
           status == last.a.status
       IN /\ (state = "running" /\ Contains(status, <<"un", "healthy">>))
                => last.res = HealthUnhealthy
          /\ (/\ state = "running"
              /\ Contains(status, <<"healthy">>)
              /\ ~Contains(status, <<"un", "healthy">>))
                => last.res = HealthHealthy
          /\ (state = "running" /\ ~Contains(status, <<"healthy">>))
                => last.res = HealthRunning
          /\ state = "exited" => last.res = HealthExited
          /\ state = "stopped" => last.res = HealthUnknown

\* C18: the exposed ports are the non-zero public ports of the records,
\* each once, in ascending numerical order.
C18_ExposedPortsSorted ==
    last.op = "extractPorts"
    => /\ SeqToSet(last.res) = SeqToSet(last.a) \ {0}
       /\ \A i, j \in 1..Len(last.res) : i < j => last.res[i] < last.res[j]

\* A port alone, or start Dash end.
IsPortOrRange(text) ==
    \/ Len(text) = 1 /\ text[1] # Dash
    \/ Len(text) = 3 /\ text[1] # Dash /\ text[2] = Dash /\ text[3] # Dash

\* The remote ports an exposed value stands for, in ascending order.
PortsOf(text) ==
    IF Len(text) = 1 THEN <<text[1]>>
    ELSE [i \in 1..(text[3] - text[1] + 1) |-> text[1] + i - 1]

RECURSIVE PortsOfAll(_)
PortsOfAll(exposed) ==
    IF exposed = <<>> THEN <<>>
    ELSE PortsOf(Head(exposed)) \o PortsOfAll(Tail(exposed))

\* C19: ForwardPorts calls ForwardPort once for every port of every
\* exposed value, a range "start-end" standing for start to end inclusive
\* in ascending order and any other value for itself; each call forwards
\* to the local port of the explicit map, or to the port itself when the
\* map has no entry.
C19_ForwardPortsExpandsRanges ==
    (/\ last.op = "ForwardPorts"
     /\ \A i \in 1..Len(last.a.exposed) : IsPortOrRange(last.a.exposed[i]))
    => /\ [i \in 1..Len(last.res) |-> last.res[i][1]]
             = PortsOfAll(last.a.exposed)
       /\ \A i \in 1..Len(last.res) :
             LET p == last.res[i][1]
                 l == IF p \in DOMAIN last.a.portMap THEN last.a.portMap[p]
                      ELSE p
             IN /\ p \in DOMAIN ports
                /\ ports[p] = l
                /\ \E s \in SessionSet(sessions) : s.r = p /\ s.l = l

\* A range of three ports was forwarded, one of them through the map.
C19_Witness ==
    /\ last.op = "ForwardPorts"
    /\ last.a.exposed = << <<9, Dash, 11>> >>
    /\ Len(last.res) = 3
    /\ \E i \in 1..3 : last.res[i][2] = Empty
    /\ \E i \in 1..3 : last.res[i][2] # Empty


\* C20: the tables of one rendering of the detail screen are those of one
\* state of the selected service: the ports table that was read is the
\* ports table of a state, since the rendering began, whose info table is
\* the info table that was read, also when a poll or a remap ran meanwhile.
C20_RenderingSeesOneState ==
    render.pc = "done" => render.rows \in render.cand

\* C24: when ForwardPort supersedes the session of remotePort that forwards
\* to another local port, it terminates that session's own forwarding
\* process (found by the local port the session is bound to) and no other
\* process, before the new session is created: when ForwardPort returns, no
\* session forwarding remotePort to the old local port is running and every
\* foreign process is still there.
C24_SupersessionKillsOldSession ==
    [][\A r \in RemotePorts, l \in LocalPorts \cup {Empty} :
          (/\ r \in DOMAIN ports
           /\ ports[r] # (IF l = Empty THEN r ELSE l)
           /\ CallForwardPort(r, l))
          => /\ foreign' = foreign
             /\ \A s \in SessionSet(sessions') :
                   (s.r = r /\ s.l = ports[r]) => s.st \notin LiveStates]_vars

\* C30: a foreign process is sent a kill signal only by the operator's kill
\* action: no poll of either screen and no remap ends a foreign process,
\* and in particular not the supersession in ForwardPort that a poll runs
\* after a remap of port r away from the occupied local port r.
C30_OnlyKillActionKillsForeign ==
    [][(\/ \E c \in DiscoveryResults : updateServices(c) \/ updateService(c)
        \/ \E i \in PortIndexes, n \in LocalPorts : handleRemapPort(i, n))
          => foreign' = foreign]_vars

\* C25: the kill action for port r of the selected service acts on the
\* port's current local mapping and re-issues the forward for that mapping:
\* GetPortMapping(service, r) is the same after the action as before it.
C25_KillKeepsMapping ==
    [][\A i \in PortIndexes :
          (handleKillProcess(i) /\ last'.res \in {"foreign", "ssh"})
          => LET name == heap[selectedService].Name
                 r == heap[selectedService].ExposedPorts[i + 1]
             IN GetPortMapping(portMappings', name, r)
                  = GetPortMapping(portMappings, name, r)]_vars

\* C29: in the service detail screen the lines of the on-screen help are
\* accepted: "<index> <port>" is the remap of the port with that index to
\* <port>, "<index> kill" is the kill action for that port.
C29_HelpCommandsAccepted ==
    [][\A i \in PortIndexes :
          /\ HandleInput(<<PortText(i), <<KillWord>>>>)
               /\ i < Len(heap[selectedService].ExposedPorts)
               /\ commands > 0
             => handleKillProcess(i)
          /\ \A n \in LocalPorts :
               HandleInput(<<PortText(i), PortText(n)>>)
                 /\ i < Len(heap[selectedService].ExposedPorts)
                 /\ commands > 0
               => handleRemapPort(i, n) \/ handleRemapPortScanFail(i, n)]_vars

\* C22: no operation of the engine after startup ends the process: with
\* every discovery result, a container record with an empty Names list
\* included, every session failure and every interleaving of the poll loops
\* with the input, the process keeps running.
C22_ProcessKeepsRunning == running

\* C26: a failed dial of the remote daemon socket costs only the connection
\* it was made for: the accept loop of the local API listener goes on
\* accepting, and when the dial works again the connection of a discovery
\* call is served.
C26_AcceptLoopSurvivesDialFailure ==
    /\ api.accept = "accepting"
    /\ api.dial = "ok" => AcceptConnection(api).conn = "proxied"

\* A discovery call has got its answer, and installed the services, after
\* a connection had been closed on a failed dial.
C26_Witness ==
    /\ api.closed
    /\ api.recovered
    /\ api.dial = "ok"
    /\ services # EmptyMap

\* C27: two refreshes never overlap: at any time at most one poll loop runs
\* and at most one GetServices refresh is in flight, whatever the sequence
\* of screen changes and input lines, a number the polling screen does not
\* handle and that makes the main loop open a new overview included.
C27_SingleRefresh ==
    /\ BagCardinality(pollers) <= 1
    /\ \A p \in BagToSet(pollers) :
          p.st = "refreshing"
          => /\ CopiesIn(p, pollers) = 1
             /\ \A q \in BagToSet(pollers) : q.st = "refreshing" => q = p

\* The services of the Service map with the values of their fields.
ServiceMapValue == [n \in DOMAIN services |-> heap[services[n]]]

\* C21: every mutation of the PortMapping table and of the Service map,
\* the forward status and the conflict set of a service reachable from the
\* Service map included, happens while the write lock of DockerClient is
\* held: a goroutine inside UpdateServices, RemapPort or
\* UpdateForwardingStatus holds d.mu, and the table and the map change only
\* in the step of the goroutine that holds it.
C21_MutationsUnderWriteLock ==
    /\ [](\A g \in DOMAIN pc :
             pc[g].op \in {"UpdateServices", "RemapPort",
                           "UpdateForwardingStatus"} => mu = g)
    /\ [][(portMappings' # portMappings
           \/ ServiceMapValue' # ServiceMapValue)
             => /\ mu # Free
                /\ mu \in DOMAIN pc
                /\ mu \notin DOMAIN pc']_vars

\* RemapPort has changed the PortMapping table and the fields of a service
\* of the Service map, with d.mu held by the main goroutine.
C21_Witness ==
    /\ last.op = "RemapPort"
    /\ last.res = "main"
    /\ selectedService \in Range(services)
    /\ last.a \in DOMAIN portMappings[heap[selectedService].Name]
    /\ heap[selectedService].ForwardStatus = StatusReady

\* C28: every read and every write of the tunnel registry map, by
\* ForwardPort and by the exit handling of the session goroutines, happens
\* while the mutex of SSHClient is held: a goroutine inside ForwardPort or
\* inside the exit handling holds s.mu, so no two of them are inside at the
\* same time.
C28_RegistryUnderMutex ==
    /\ \A g \in DOMAIN pc : pc[g].op \in {"ForwardPort", "exit"} => sshMu = g
    /\ Cardinality({g \in DOMAIN pc : pc[g].op \in {"ForwardPort", "exit"}})
         <= 1

\* The exit handling of a session has deleted the registry entry with s.mu
\* held, while the main goroutine was not inside ForwardPort.
C28_Witness ==
    /\ last.op = "exit"
    /\ last.res = "session"
    /\ last.a \notin DOMAIN ports

\* C23: the running container web publishes port 9; when local port 9 is
\* held by no foreign process then, with the monitor connected and polling,
\* eventually a session whose ssh listens on local port 9 forwards it to
\* remote port 9 (so that the service answers on localhost:9), unless a
\* foreign process takes the port first.
C23_PublishedPortGetsForwarded ==
    (foreign[9] = NoProc)
    ~> (\/ \E s \in SessionSet(sessions) :
              s.r = 9 /\ s.l = 9 /\ s.st = "Listening"
        \/ foreign[9] # NoProc)

\* C31: after ForwardPort(r, l2) has superseded a session r -> l1, the
\* registry maps r to l2 for as long as the new session runs: every running
\* session that no later ForwardPort has superseded has its entry in the
\* registry, whatever the goroutines of the sessions before it do.
C31_NewSessionKeepsEntry ==
    \A s \in SessionSet(sessions) :
        (s.st \in LiveStates /\ ~s.sup)
            => (s.r \in DOMAIN ports /\ ports[s.r] = s.l)

(***************************************************************************)
(* Remaps of a service with two published ports: the daemon lists web with *)
(* ports 10 and 9, the operator selects it and types remap commands, the   *)
(* poll loops tick, ssh processes bind, die and are cleaned up.            *)
(***************************************************************************)
RemapDiscovery ==
    {c \in DiscoveryResults :
        \E i \in 1..Len(c) : Len(extractPorts(c[i].Ports)) > 1}

NextRemap ==
    \/ \E c \in RemapDiscovery : updateServices(c)
    \/ \E c \in RemapDiscovery : updateService(c)
    \/ \E idx \in PortIndexes : selectService(idx)
    \/ \E i \in PortIndexes, n \in LocalPorts : handleRemapPortScanFail(i, n)
    \/ \E i \in PortIndexes, n \in LocalPorts : handleRemapPort(i, n)
    \/ \E s \in SessionSet(sessions) : SessionBind(s)
    \/ \E s \in SessionSet(sessions) : SessionRunError(s)
    \/ \E s \in SessionSet(sessions) : SessionExit(s)

SpecRemap == InitOperator /\ [][NextRemap]_vars

\* C32: a remap of port r of the selected service changes only port r.  For
\* every other remote port r' the PortMapping entries stay as they were, a
\* registry entry r' -> l' stays r' -> l', and a session the remap starts for
\* r' uses the local port of the PortMapping of r': an earlier remap of r'
\* stays in effect.
C32_RemapChangesOnlyItsPort ==
    [][(last'.op = "handleRemapPort" /\ last'.res \in {"done", "resolved"})
        => \A r \in RemotePorts \ {last'.a} :
            /\ \A n \in DOMAIN portMappings :
                  GetPortMapping(portMappings', n, r)
                      = GetPortMapping(portMappings, n, r)
            /\ r \in DOMAIN ports
                  => (r \in DOMAIN ports' /\ ports'[r] = ports[r])
            /\ (r \notin DOMAIN ports /\ r \in DOMAIN ports')
                  => ports'[r] = GetPortMapping(portMappings,
                                     heap[selectedService].Name, r)]_vars

(***************************************************************************)
(* LandingScreen.HandleInput with a service index, statement by statement: *)
(* the bounds check against currentServices (screens.go 114), then         *)
(* stopPolling, whose send on done is received when the poll goroutine is  *)
(* back in its select, then the element access (116) and SetMode.  Between *)
(* the check and the access the poll goroutine can finish a refresh.  An   *)
(* index out of range panics in the main goroutine: the process ends.      *)
(***************************************************************************)
checkIndex(idx) ==
    /\ screen = "Overview"
    /\ "main" \notin DOMAIN pc
    /\ idx >= 0 /\ idx < Len(currentServices)
    /\ pc' = MapPut(pc, "main", Frame("HandleInput", idx, 0, <<>>, EmptyMap))
    /\ last' = Last("other", 0, 0, "")
    /\ UNCHANGED <<sshVars, dockerVars, displayVars, commands, render>>
    /\ UNCHANGED <<displayMu, mu, sshMu, pollers, api, running>>

selectChecked ==
    /\ "main" \in DOMAIN pc
    /\ pc["main"].op = "HandleInput"
    /\ BagIn(Poller("Overview", "waiting", TRUE), pollers)
    /\ pc' = MapDelete(pc, "main")
    /\ LET idx == pc["main"].r
       IN IF idx < Len(currentServices)
          THEN /\ pollers' = SwitchPoller(pollers, "Overview", "Detail")
               /\ SetObjects(heap, services, currentServices,
                             currentServices[idx + 1])
               /\ screen' = "Detail"
               /\ last' = Last("selectService", idx, Len(currentServices),
                               "selected")
               /\ UNCHANGED running
          ELSE /\ running' = FALSE
               /\ last' = Last("selectService", idx, Len(currentServices),
                               "out of range")
               /\ UNCHANGED <<heap, services, displayVars, pollers>>
    /\ UNCHANGED <<sshVars, portMappings, commands>>
    /\ RenderStep("main")
    /\ UNCHANGED <<displayMu, mu, sshMu, api>>

NextSelection ==
    \/ running /\ \E p \in BagToSet(pollers) : tickBegin(p)
    \/ running /\ updateServicesFail
    \/ running /\ \E c \in DiscoveryResults : updateServices(c)
    \/ running /\ updateServiceFail
    \/ running /\ \E c \in DiscoveryResults : updateService(c)
    \/ running /\ \E idx \in PortIndexes : checkIndex(idx)
    \/ running /\ selectChecked
    \/ running /\ backToOverview
    \/ \E s \in SessionSet(sessions) : SessionBind(s)
    \/ \E s \in SessionSet(sessions) : SessionRunError(s)
    \/ \E s \in SessionSet(sessions) : SessionExit(s)

SpecSelection == Init /\ [][NextSelection]_vars

\* C33: selecting a service by index in the overview never reads outside the
\* current service list, also when a poll shortens the list between the
\* bounds check and the element access.
C33_SelectionWithinList ==
    last.op = "selectService" => last.a < last.b

(***************************************************************************)
(* ServiceDetailScreen.HandleInput with "<index> kill" or "<index> remap   *)
(* <port>", statement by statement: the check of the index against the     *)
(* ExposedPorts of the selection (screens.go 394), then the read of        *)
(* selectedService.ExposedPorts[portIdx] (398) and the handler, which      *)
(* reads d.selectedService again.  The detail poll goroutine replaces the  *)
(* selection without a lock (292).  The frame keeps, as history, the       *)
(* ExposedPorts of the object that was validated.                          *)
(***************************************************************************)
checkPortIndex(portIdx) ==
    /\ screen = "Detail"
    /\ selectedService # Nil
    /\ "main" \notin DOMAIN pc
    /\ portIdx >= 0 /\ portIdx < Len(heap[selectedService].ExposedPorts)
    /\ pc' = MapPut(pc, "main",
                    Frame("DetailInput", portIdx, 0,
                          heap[selectedService].ExposedPorts, EmptyMap))
    /\ last' = Last("other", 0, 0, "")
    /\ UNCHANGED <<sshVars, dockerVars, displayVars, commands, render>>
    /\ UNCHANGED <<displayMu, mu, sshMu, pollers, api, running>>

InDetailInput == "main" \in DOMAIN pc /\ pc["main"].op = "DetailInput"

\* The index is outside the ExposedPorts of the selection of now: panic.
portOutOfRange ==
    /\ InDetailInput
    /\ pc["main"].r >= Len(heap[selectedService].ExposedPorts)
    /\ running' = FALSE
    /\ pc' = MapDelete(pc, "main")
    /\ last' = Last("DetailInput", pc["main"].r,
                    Len(heap[selectedService].ExposedPorts), "out of range")
    /\ UNCHANGED <<sshVars, dockerVars, displayVars, commands, render>>
    /\ UNCHANGED <<displayMu, mu, sshMu, pollers, api>>

killChecked ==
    /\ InDetailInput
    /\ handleKillProcessBody(pc["main"].r)
    /\ pc' = MapDelete(pc, "main")
    /\ UNCHANGED <<displayMu, mu, sshMu, pollers, api, running>>

remapCheckedScanFail(newPort) ==
    /\ InDetailInput
    /\ handleRemapPortScanFailBody(pc["main"].r, newPort)
    /\ pc' = MapDelete(pc, "main")
    /\ UNCHANGED <<displayMu, mu, sshMu, pollers, api, running>>

remapChecked(newPort) ==
    /\ InDetailInput
    /\ handleRemapPortBody(pc["main"].r, newPort)
    /\ pc' = MapDelete(pc, "main")
    /\ UNCHANGED <<displayMu, mu, sshMu, pollers, api, running>>

NextDetail ==
    \/ running /\ updateServicesFail
    \/ running /\ \E c \in DiscoveryResults : updateServices(c)
    \/ running /\ updateServiceFail
    \/ running /\ \E c \in DiscoveryResults : updateService(c)
    \/ running /\ \E idx \in PortIndexes : selectService(idx)
    \/ running /\ ~InDetailInput /\ backToOverview
    \/ running /\ \E i \in PortIndexes : checkPortIndex(i)
    \/ running /\ portOutOfRange
    \/ running /\ killChecked
    \/ running /\ \E n \in LocalPorts : remapCheckedScanFail(n)
    \/ running /\ \E n \in LocalPorts : remapChecked(n)
    \/ \E s \in SessionSet(sessions) : SessionBind(s)
    \/ \E s \in SessionSet(sessions) : SessionRunError(s)
    \/ \E s \in SessionSet(sessions) : SessionExit(s)

SpecDetail == Init /\ [][NextDetail]_vars

\* C34: in the service detail screen HandleInput never indexes ExposedPorts
\* out of range: the port index that was validated is applied to a service
\* that has a port with that index, also when the detail poll loop replaces
\* the selected service in between.
C34_PortIndexWithinService ==
    last.op = "DetailInput" => last.a < last.b

(***************************************************************************)
(* The goroutines over the three locks and the done channel, call by call. *)
(*   main  - the input loop: an input that leaves the screen runs          *)
(*           stopPolling (send on the unbuffered done channel), SetMode    *)
(*           under DisplayManager.mu, then Display; a remap runs RemapPort *)
(*           under DockerClient.mu and ForwardPort under SSHClient.mu      *)
(*   poll  - the poll goroutine of the current screen: GetServices, then   *)
(*           DockerClient.UpdateServices, DisplayManager.UpdateServices    *)
(*           and Display (overview) or the new selection and Display       *)
(*           (detail); back in its select it receives from done            *)
(*   session - the exit handling of a session goroutine                    *)
(*   api   - a call of DisplayManager.UpdateDisplay                        *)
(* A frame whose op is in Waiting stands before a Lock, RLock or send that *)
(* has not returned.                                                       *)
(***************************************************************************)
\* A screen that asks UpdateDisplay for a refresh.
NeedsRefresh_Overview(s) == s = "Overview"

\* LandingScreen, ServerListScreen, ServiceDetailScreen .NeedsRefresh
NeedsRefresh(s) == FALSE

Position(g, op) == g \in DOMAIN pc /\ pc[g].op = op
MoveTo(g, op) == [pc EXCEPT ![g].op = op]
PollerWaits == BagIn(Poller(screen, "waiting", TRUE), pollers)

\* screens.go 61 / 286: the ticker has fired, GetServices has returned.
pollGetServices(containers) ==
    /\ PollerWaits
    /\ "poll" \notin DOMAIN pc
    /\ sshMu = Free
    /\ \E G \in {GetServices(SSHState, containers)} :
          /\ ~G.panic
          /\ SetSSH(G.T)
          /\ pc' = MapPut(pc, "poll",
                          Frame(IF screen = "Overview" THEN "GetServices"
                                ELSE "updateService", 0, 0, G.objs, G.byName))
    /\ last' = Last("other", 0, 0, "")
    /\ UNCHANGED <<dockerVars, displayVars, commands, render>>
    /\ UNCHANGED <<displayMu, mu, sshMu, pollers, api, running>>

\* part_000 138-139: d.services = services, the deferred Unlock.
dockerUpdateServicesReturn ==
    /\ Position("poll", "UpdateServices")
    /\ LET base == Len(heap)
           h == heap \o pc["poll"].objs
           svc == [n \in DOMAIN pc["poll"].byName |->
                      base + pc["poll"].byName[n]]
       IN SetObjects(h, svc, currentServices, selectedService)
    /\ mu' = Unlock(mu, "poll", "UpdateServices", WriteLocked)
    /\ pc' = MoveTo("poll", "display.UpdateServices")
    /\ last' = Last("other", 0, 0, "")
    /\ UNCHANGED <<sshVars, portMappings, screen, commands, render>>
    /\ UNCHANGED <<displayMu, sshMu, pollers, api, running>>

\* display.go 64: d.mu.Lock() returns.
displayUpdateServicesEnter ==
    /\ Position("poll", "display.UpdateServices")
    /\ displayMu = Free
    /\ displayMu' = "poll"
    /\ pc' = MoveTo("poll", "display.UpdateServices locked")
    /\ last' = Last("other", 0, 0, "")
    /\ UNCHANGED <<sshVars, dockerVars, displayVars, commands, render>>
    /\ UNCHANGED <<mu, sshMu, pollers, api, running>>

\* display.go 67-85: d.currentServices = withPorts, the deferred Unlock.
displayUpdateServicesReturn ==
    /\ Position("poll", "display.UpdateServices locked")
    /\ LET withPorts == {n \in DOMAIN services :
                            Len(heap[services[n]].ExposedPorts) > 0}
           sorted == SortNames(withPorts)
           cur == [i \in 1..Len(sorted) |-> services[sorted[i]]]
       IN SetObjects(heap, services, cur, selectedService)
    /\ displayMu' = Free
    /\ pc' = MoveTo("poll", "Display")
    /\ last' = Last("other", 0, 0, "")
    /\ UNCHANGED <<sshVars, portMappings, screen, commands, render>>
    /\ UNCHANGED <<mu, sshMu, pollers, api, running>>

\* screens.go 290-293: the selection is replaced by the new object of the
\* same name, if there is one.
updateServiceSelect ==
    /\ Position("poll", "updateService")
    /\ LET base == Len(heap)
           h == heap \o pc["poll"].objs
           name == heap[selectedService].Name
           sel == IF selectedService # Nil /\ name \in DOMAIN pc["poll"].byName
                  THEN base + pc["poll"].byName[name]
                  ELSE selectedService
       IN SetObjects(h, services, currentServices, sel)
    /\ pc' = MoveTo("poll", "Display")
    /\ last' = Last("other", 0, 0, "")
    /\ UNCHANGED <<sshVars, portMappings, screen, commands, render>>
    /\ UNCHANGED <<displayMu, mu, sshMu, pollers, api, running>>

\* Display of the current screen: GetServicesByPortStatus (overview) and
\* GetPortMapping (detail) take d.mu.RLock() of the DockerClient.
DisplayReturn(g) ==
    /\ Position(g, "Display")
    /\ mu = Free
    /\ pc' = MapDelete(pc, g)
    /\ last' = Last("Display", 0, 0, g)
    /\ UNCHANGED <<sshVars, dockerVars, displayVars, commands, render>>
    /\ UNCHANGED <<displayMu, mu, sshMu, pollers, api, running>>

\* HandleInput with an index in the overview (idx >= 0) or "b" in the
\* detail screen (idx = -1): ticker.Stop(), then the send on done.
leaveScreen(idx) ==
    /\ "main" \notin DOMAIN pc
    /\ \/ screen = "Overview" /\ idx >= 0 /\ idx < Len(currentServices)
       \/ screen = "Detail" /\ idx = -1
    /\ pc' = MapPut(pc, "main", Frame("stopPolling", idx, 0, <<>>, EmptyMap))
    /\ last' = Last("other", 0, 0, "")
    /\ UNCHANGED <<sshVars, dockerVars, displayVars, commands, render>>
    /\ UNCHANGED <<displayMu, mu, sshMu, pollers, api, running>>

\* The poll goroutine, in its select, receives from done and returns; in
\* the overview the main goroutine then reads currentServices[idx].
stopPollingReturn ==
    /\ Position("main", "stopPolling")
    /\ "poll" \notin DOMAIN pc
    /\ PollerWaits
    /\ pollers' = pollers (-) SetToBag({Poller(screen, "waiting", TRUE)})
    /\ LET idx == pc["main"].r
       IN IF idx >= Len(currentServices)
          THEN /\ running' = FALSE
               /\ pc' = MapDelete(pc, "main")
               /\ UNCHANGED <<heap, services, currentServices,
                              selectedService>>
          ELSE /\ running' = running
               /\ pc' = MoveTo("main", "SetMode")
               /\ IF idx >= 0
                  THEN SetObjects(heap, services, currentServices,
                                  currentServices[idx + 1])
                  ELSE UNCHANGED <<heap, services, currentServices,
                                   selectedService>>
    /\ last' = Last("stopPolling", 0, 0, "main")
    /\ UNCHANGED <<sshVars, portMappings, screen, commands, render>>
    /\ UNCHANGED <<displayMu, mu, sshMu, api>>

\* display.go 88: d.mu.Lock() returns.
SetModeEnter ==
    /\ Position("main", "SetMode")
    /\ displayMu = Free
    /\ displayMu' = "main"
    /\ pc' = MoveTo("main", "SetMode locked")
    /\ last' = Last("other", 0, 0, "")
    /\ UNCHANGED <<sshVars, dockerVars, displayVars, commands, render>>
    /\ UNCHANGED <<mu, sshMu, pollers, api, running>>

\* display.go 91-98: the new screen with its poll goroutine, the deferred
\* Unlock; after "b", selectedService = nil.
SetModeReturn ==
    /\ Position("main", "SetMode locked")
    /\ screen' = IF pc["main"].r >= 0 THEN "Detail" ELSE "Overview"
    /\ pollers' = pollers (+) SetToBag({Poller(screen', "waiting", TRUE)})
    /\ SetObjects(heap, services, currentServices,
                  IF pc["main"].r >= 0 THEN selectedService ELSE Nil)
    /\ displayMu' = Free
    /\ pc' = MoveTo("main", "Display")
    /\ last' = Last("other", 0, 0, "")
    /\ UNCHANGED <<sshVars, portMappings, commands, render>>
    /\ UNCHANGED <<mu, sshMu, api, running>>

\* display.go 117-118: UpdateDisplay, d.mu.Lock() returns.
UpdateDisplayEnter ==
    /\ "api" \notin DOMAIN pc
    /\ displayMu = Free
    /\ displayMu' = "api"
    /\ pc' = MapPut(pc, "api", Frame("UpdateDisplay", 0, 0, <<>>, EmptyMap))
    /\ last' = Last("other", 0, 0, "")
    /\ UNCHANGED <<sshVars, dockerVars, displayVars, commands, render>>
    /\ UNCHANGED <<mu, sshMu, pollers, api, running>>

\* display.go 121-131: with a screen that needs a refresh, GetServices and
\* DockerClient.UpdateServices, then d.UpdateServices, which locks d.mu;
\* otherwise d.Display() and the deferred Unlock.
UpdateDisplayReturn ==
    /\ Position("api", "UpdateDisplay")
    /\ mu = Free
    /\ IF NeedsRefresh(screen)
       THEN /\ pc' = MoveTo("api", "display.UpdateServices")
            /\ UNCHANGED displayMu
       ELSE /\ pc' = MapDelete(pc, "api")
            /\ displayMu' = Free
    /\ last' = Last("Display", 0, 0, "api")
    /\ UNCHANGED <<sshVars, dockerVars, displayVars, commands, render>>
    /\ UNCHANGED <<mu, sshMu, pollers, api, running>>

NextEngine ==
    \/ running /\ \E c \in OperatorDiscovery : pollGetServices(c)
    \/ running /\ UpdateServicesEnter
    \/ running /\ dockerUpdateServicesReturn
    \/ running /\ displayUpdateServicesEnter
    \/ running /\ displayUpdateServicesReturn
    \/ running /\ updateServiceSelect
    \/ running /\ \E g \in {"main", "poll"} : DisplayReturn(g)
    \/ running /\ \E idx \in {-1} \cup PortIndexes : leaveScreen(idx)
    \/ running /\ stopPollingReturn
    \/ running /\ SetModeEnter
    \/ running /\ SetModeReturn
    \/ running /\ \E i \in PortIndexes, l \in LocalPorts : RemapPortEnter(i, l)
    \/ running /\ RemapPortReturn
    \/ running /\ \E r \in RemotePorts, l \in LocalPorts \cup {Empty} :
                     ForwardPortEnter("main", r, l)
    \/ running /\ ForwardPortReturn("main")
    \/ running /\ UpdateDisplayEnter
    \/ running /\ UpdateDisplayReturn
    \/ \E s \in SessionSet(sessions) : exitHandlerEnter(s)
    \/ \E s \in SessionSet(sessions) : exitHandlerReturn(s)
    \/ \E s \in SessionSet(sessions) : SessionBind(s)
    \/ \E s \in SessionSet(sessions) : SessionRunError(s)

SpecEngine == Init /\ [][NextEngine]_vars

\* What the goroutine g waits for: the holder of the lock it is about to
\* take, or the poll goroutine that has to receive from done; Free when g
\* is not waiting or the lock is free.
WaitsFor(g) ==
    IF g \notin DOMAIN pc THEN Free
    ELSE CASE pc[g].op = "GetServices" -> mu
           [] pc[g].op = "display.UpdateServices" -> displayMu
           [] pc[g].op = "SetMode" -> displayMu
           [] pc[g].op = "Display" -> mu
           [] pc[g].op = "stopPolling" ->
                  IF "poll" \in DOMAIN pc THEN "poll" ELSE Free
           [] OTHER -> Free

Goroutines == {"main", "poll", "session", "api"}

\* g is not blocked, or waits for a goroutine that gets on within n hops.
RECURSIVE GetsOn(_, _)
GetsOn(g, n) ==
    \/ WaitsFor(g) = Free
    \/ n > 0 /\ WaitsFor(g) # g /\ GetsOn(WaitsFor(g), n - 1)

\* C35: the engine never deadlocks: in every reachable state each goroutine
\* that waits for a lock or for the done channel waits for a goroutine that
\* is itself not blocked for ever (no goroutine waits for itself and no
\* chain of waiting goroutines closes), and stopPolling waits for nothing
\* but the poll in flight.
C35_NoDeadlock ==
    /\ \A g \in Goroutines : GetsOn(g, Cardinality(Goroutines))
    /\ Position("main", "stopPolling") /\ "poll" \notin DOMAIN pc
           => ENABLED stopPollingReturn

\* The main goroutine waits in stopPolling for the poll goroutine, which is
\* inside its refresh and waits for a lock that another goroutine holds.
C35_Witness ==
    /\ Position("main", "stopPolling")
    /\ WaitsFor("poll") \notin {Free, "poll"}

(***************************************************************************)
(* Leaving a server and connecting again.  "b" in the overview stops the   *)
(* poll goroutine and shows the server list (screens.go 110-113); the      *)
(* SSHClient and the DockerClient stay as they are.  A number in the       *)
(* server list makes a new SSHClient, with an empty registry, and a new    *)
(* DockerClient (screens.go 209-237).  No call of these paths ends an      *)
(* ssh -L process: SSHClient.Close closes the connection of the Go client  *)
(* (ssh.go 67-69).  The goroutines of the sessions of the old client are   *)
(* followed up to the error of Run: what they delete afterwards is in the  *)
(* registry of the old client.                                             *)
(***************************************************************************)
backToServerList ==
    /\ screen = "Overview"
    /\ BagIn(Poller("Overview", "waiting", TRUE), pollers)
    /\ pollers' = pollers (-) SetToBag({Poller("Overview", "waiting", TRUE)})
    /\ screen' = "ServerList"
    /\ last' = Last("back", 0, 0, "")
    /\ UNCHANGED <<sshVars, dockerVars, currentServices, selectedService>>
    /\ UNCHANGED <<commands, render, mutexVars, api, running>>

\* SetCurrentServer, NewSSHClient or NewDockerClient fails.
ServerListConnectFail(idx) ==
    /\ screen = "ServerList"
    /\ idx >= 0 /\ idx < MaxServers
    /\ last' = Last("connect", idx, 0, "failed")
    /\ UNCHANGED <<sshVars, dockerVars, displayVars, commands, render>>
    /\ UNCHANGED engineVars

ServerListConnect(idx) ==
    /\ screen = "ServerList"
    /\ idx >= 0 /\ idx < MaxServers
    /\ ports' = EmptyMap
    /\ portMappings' = EmptyMap
    /\ SetObjects(heap, EmptyMap, currentServices, selectedService)
    /\ screen' = "Overview"
    /\ pollers' = pollers (+) SetToBag({Poller("Overview", "waiting", TRUE)})
    /\ api' = [api EXCEPT !.accept = "accepting", !.dial = "ok"]
    /\ last' = Last("connect", idx, 0, "connected")
    /\ UNCHANGED <<sessions, foreign, commands, render>>
    /\ UNCHANGED <<mutexVars, running>>

NextReconnect ==
    \/ updateServicesFail
    \/ \E c \in OperatorDiscovery : updateServices(c)
    \/ backToServerList
    \/ \E idx \in 0..(MaxServers - 1) : ServerListConnectFail(idx)
    \/ \E idx \in 0..(MaxServers - 1) : ServerListConnect(idx)
    \/ \E s \in SessionSet(sessions) : SessionBind(s)
    \/ \E s \in SessionSet(sessions) : SessionRunError(s)
    \/ \E p \in LocalPorts, proc \in ForeignProcs : ForeignStart(p, proc)
    \/ \E p \in LocalPorts : ForeignStop(p)

SpecReconnect == Init /\ [][NextReconnect]_vars

\* C36: when the operator has left a server and connects again, no
\* forwarding session that was started under the previous connection is
\* still running.
C36_NoSessionOfPreviousConnection ==
    (last.op = "connect" /\ last.res = "connected")
        => \A s \in SessionSet(sessions) : s.st \notin LiveStates

(***************************************************************************)
(* The configuration (config.go): LoadConfig on a configuration file, then *)
(* calls of AddServer, RemoveServer, SetCurrentServer and                  *)
(* SetDefaultServer.  The initial state holds the file in last.res (last.a *)
(* tells whether it exists); after a call last.a is the name passed,       *)
(* last.b the error returned ("" for nil) and last.res the Config in       *)
(* memory.  Save fails or not, as the file system decides.                 *)
(***************************************************************************)
\* Largest number of servers in the configuration file.
MaxFileServers == 2
\* Largest number of calls after LoadConfig.
MaxConfigCalls == 2

ServerConfig(name, host) ==
    [Name |-> name, Host |-> host, User |-> "user", KeyPath |-> "key"]

Config(servers, current, default) ==
    [Servers |-> servers, CurrentServer |-> current, DefaultServer |-> default]

\* Names and hosts in a configuration file; names passed to the operations.
FileNames == {"", "a", "b"}
FileHosts == {"", "host"}
TypedNames == {"a", "b", "default"}

ConfigFiles ==
    {Config(servers, current, default) :
        servers \in UNION {[1..n -> {ServerConfig(name, host) :
                                        name \in FileNames, host \in FileHosts}]
                           : n \in 0..MaxFileServers},
        current \in FileNames, default \in FileNames}

isValid(s) == s.Name # "" /\ s.Host # "" /\ s.User # "" /\ s.KeyPath # ""

isServerNameValid(c, name) ==
    \E i \in 1..Len(c.Servers) : c.Servers[i].Name = name

validateAndCleanup(c) ==
    LET c1 == [c EXCEPT !.Servers = SelectSeq(@, isValid)]
        c2 == IF ~isServerNameValid(c1, c1.DefaultServer)
              THEN [c1 EXCEPT !.DefaultServer = ""] ELSE c1
        c3 == IF ~isServerNameValid(c2, c2.CurrentServer)
              THEN [c2 EXCEPT !.CurrentServer = c2.DefaultServer] ELSE c2
    IN IF c3.DefaultServer = "" /\ Len(c3.Servers) > 0
       THEN [c3 EXCEPT !.DefaultServer = c3.Servers[1].Name,
                       !.CurrentServer = c3.Servers[1].Name]
       ELSE c3

\* Config.Save: the error it returns.
Save(fails) == IF fails THEN "failed to write config" ELSE ""

createDefaultConfig(saveFails) ==
    [config |-> Config(<<ServerConfig("default", "c1.local:22")>>,
                       "default", "default"),
     err |-> Save(saveFails)]

LoadConfig(exists, file, saveFails) ==
    IF ~exists THEN createDefaultConfig(saveFails)
    ELSE LET config == validateAndCleanup(file)
         IN IF Len(config.Servers) = 0 THEN createDefaultConfig(saveFails)
            ELSE [config |-> config, err |-> Save(saveFails)]

AddServer(c, name, host, saveFails) ==
    IF isServerNameValid(c, name)
    THEN [config |-> c, err |-> "already exists"]
    ELSE LET c1 == [c EXCEPT !.Servers = Append(@, ServerConfig(name, host))]
             c2 == IF Len(c1.Servers) = 1
                   THEN [c1 EXCEPT !.DefaultServer = name,
                                   !.CurrentServer = name]
                   ELSE c1
         IN [config |-> c2, err |-> Save(saveFails)]

RemoveServer(c, name, saveFails) ==
    IF name = c.DefaultServer
    THEN [config |-> c, err |-> "cannot remove default server"]
    ELSE IF isServerNameValid(c, name)
    THEN LET i == CHOOSE k \in 1..Len(c.Servers) :
                     /\ c.Servers[k].Name = name
                     /\ \A j \in 1..(k - 1) : c.Servers[j].Name # name
             c1 == [c EXCEPT !.Servers =
                       SubSeq(@, 1, i - 1) \o SubSeq(@, i + 1, Len(@))]
             c2 == IF c1.CurrentServer = name
                   THEN [c1 EXCEPT !.CurrentServer = c1.DefaultServer]
                   ELSE c1
         IN [config |-> c2, err |-> Save(saveFails)]
    ELSE [config |-> c, err |-> "not found"]

SetCurrentServer(c, name, saveFails) ==
    IF isServerNameValid(c, name)
    THEN [config |-> [c EXCEPT !.CurrentServer = name],
          err |-> Save(saveFails)]
    ELSE [config |-> c, err |-> "not found"]

SetDefaultServer(c, name, saveFails) ==
    IF isServerNameValid(c, name)
    THEN [config |-> [c EXCEPT !.DefaultServer = name],
          err |-> Save(saveFails)]
    ELSE [config |-> c, err |-> "not found"]

InitConfig ==
    /\ ports = EmptyMap
    /\ sessions = EmptyBag
    /\ foreign = [p \in LocalPorts |-> NoProc]
    /\ portMappings = EmptyMap
    /\ heap = <<>>
    /\ services = EmptyMap
    /\ currentServices = <<>>
    /\ selectedService = Nil
    /\ screen = "Overview"
    /\ commands = MaxConfigCalls
    /\ render = RenderIdle
    /\ InitEngine
    /\ \/ last = Last("file", "absent", "", Config(<<>>, "", ""))
       \/ \E file \in ConfigFiles : last = Last("file", "present", "", file)

ConfigCalls ==
    {"AddServer", "RemoveServer", "SetCurrentServer", "SetDefaultServer"}

\* main.go 143-146: LoadConfig; an error ends the program.
CallLoadConfig(saveFails) ==
    /\ last.op = "file"
    /\ LET R == LoadConfig(last.a = "present", last.res, saveFails)
       IN last' = Last("LoadConfig", last.a, R.err, R.config)
    /\ UNCHANGED <<sshVars, dockerVars, displayVars, commands>>
    /\ UNCHANGED <<render, engineVars>>

\* The configuration is loaded: the program runs and has a Config.
ConfigLoaded ==
    \/ last.op = "LoadConfig" /\ last.b = ""
    \/ last.op \in ConfigCalls

ConfigCall(op, name, R) ==
    /\ ConfigLoaded
    /\ commands > 0
    /\ commands' = commands - 1
    /\ last' = Last(op, name, R.err, R.config)
    /\ UNCHANGED <<sshVars, dockerVars, displayVars>>
    /\ UNCHANGED <<render, engineVars>>

CallAddServer(name, saveFails) ==
    ConfigCall("AddServer", name, AddServer(last.res, name, "host", saveFails))

CallRemoveServer(name, saveFails) ==
    ConfigCall("RemoveServer", name, RemoveServer(last.res, name, saveFails))

CallSetCurrentServer(name, saveFails) ==
    ConfigCall("SetCurrentServer", name,
               SetCurrentServer(last.res, name, saveFails))

CallSetDefaultServer(name, saveFails) ==
    ConfigCall("SetDefaultServer", name,
               SetDefaultServer(last.res, name, saveFails))

NextConfig ==
    \/ \E f \in BOOLEAN : CallLoadConfig(f)
    \/ \E name \in TypedNames, f \in BOOLEAN : CallAddServer(name, f)
    \/ \E name \in TypedNames, f \in BOOLEAN : CallRemoveServer(name, f)
    \/ \E name \in TypedNames, f \in BOOLEAN : CallSetCurrentServer(name, f)
    \/ \E name \in TypedNames, f \in BOOLEAN : CallSetDefaultServer(name, f)

SpecConfig == InitConfig /\ [][NextConfig]_vars

\* C37: from a configuration returned by LoadConfig, after any sequence of
\* AddServer, RemoveServer, SetCurrentServer and SetDefaultServer calls the
\* server list is non-empty, the server names are pairwise distinct, and
\* DefaultServer and CurrentServer each name a server of the list.
C37_ConfigWellFormed ==
    ConfigLoaded =>
        LET c == last.res
        IN /\ Len(c.Servers) > 0
           /\ \A i, j \in 1..Len(c.Servers) :
                 c.Servers[i].Name = c.Servers[j].Name => i = j
           /\ isServerNameValid(c, c.DefaultServer)
           /\ isServerNameValid(c, c.CurrentServer)

\* C38: a configuration operation that returns an error leaves the
\* configuration in memory unchanged: the server list, DefaultServer and
\* CurrentServer after the call are those before it.
C38_ErrorLeavesConfigUnchanged ==
    [][(last'.op \in ConfigCalls /\ last'.b # "")
          => last'.res = last.res]_vars

=============================================================================
